---- MODULE Spec2Model ----
(***************************************************************************)
(* orbkit/read.py: the readers of quantum-chemistry output files.          *)
(*                                                                         *)
(* Every reader is a loop over the lines of one file that keeps a section  *)
(* flag and a handful of counters and fills one QCinfo record.  A line is  *)
(* modelled by the lexical shape the reader tests (which keyword it holds, *)
(* how many tokens it has) and by the values the reader converts; one step *)
(* of the model is one pass through the body of the line loop, or one      *)
(* statement block of the code that follows the loop.                      *)
(***************************************************************************)
EXTENDS Integers, Sequences, FiniteSets, TLC

VARIABLES
  parser,       \* the reader that main_read dispatched to
  pc,           \* position in the reader: the loop, the blocks after it, done, failed
  err,          \* the exception that ended the call, "none" while it runs
  all_mo,       \* argument all_mo
  il,           \* index of the line loop over flines
  flines,       \* the lines of the file, for the readers that hold them in memory
  sec_flag,     \* local sec_flag
  basis_count,  \* local basis_count
  qc,           \* the QCinfo record under construction
  loc,          \* the other local variables of the running reader
  lim           \* what the input file may still hold: the bounds of its family

vars == <<parser, pc, err, all_mo, il, flines, sec_flag, basis_count, qc, loc, lim>>

(***************************************************************************)
(* Bounds of the input families.                                           *)
(***************************************************************************)
MaxAtoms  == 2   \* atoms of a geometry
MaxBlocks == 2   \* basis-set blocks of a Gamess file
MaxShells == 2   \* shell lines groups of one basis-set block
MaxPrim   == 1   \* primitive lines of one shell
MaxMO     == 3   \* orbitals of a file
MaxOcc    == 2   \* largest occupied-orbital count of a Gamess file
MaxRows   == 2   \* coefficient rows of a Gamess orbital block

(***************************************************************************)
(* Values shared by the readers.                                           *)
(***************************************************************************)
\* occupation numbers are counted in units of 1e-7, so that the threshold
\* 0.0000001 of the final filter is the integer 1
OccUnit == 10000000
OccThreshold == 1

RECURSIVE SumSeq(_)
SumSeq(s) == IF s = <<>> THEN 0 ELSE Head(s) + SumSeq(Tail(s))

\* orbkit.core: lquant and l_deg for a cartesian basis
lquant(t) == CASE t = "s" -> 0 [] t = "p" -> 1 [] t = "d" -> 2 [] t = "f" -> 3 [] OTHER -> 4
l_deg(l) == ((l + 1) * (l + 2)) \div 2

\* orbkit.qcinfo: a fresh QCinfo()
QCinfo == [geo_info |-> <<>>, geo_spec |-> <<>>, ao_spec |-> <<>>, mo_spec |-> <<>>,
           etot |-> 0, tdm_states |-> "empty", tdm_transitions |-> "empty"]

\* an exception leaves the reader: no record is returned
Fail(e) ==
  /\ pc' = "failed"
  /\ err' = e
  /\ UNCHANGED <<parser, all_mo, il, flines, sec_flag, basis_count, qc, loc, lim>>

(***************************************************************************)
(* read_gamess                                                             *)
(***************************************************************************)
AtomNames == {"H", "O"}      \* atom type names of the basis blocks and atom labels
ShellExps == {1, 2}          \* exponents of the primitive lines
Contraction1 == 11           \* first contraction column of a primitive line
Contraction2 == 12           \* second contraction column (L shells)
MaxStates == 1               \* largest NUMBER OF STATES REQUESTED
MaxCols == 2                 \* orbitals of one column block of the EIGENVECTORS section
MaxTdmLines == 3             \* lines of a transition-dipole section

\* the markers of the lines of a transition-dipole section
TdmKinds == {"ground", "state", "trans0", "trans", "end", "mult", "energy", "ebohr", "other"}

\* the subsequence of s at the positions S
RECURSIVE SubSeqAt(_, _)
SubSeqAt(s, S) ==
  IF S = {} THEN <<>>
  ELSE LET m == CHOOSE i \in S : \A j \in S : i <= j
       IN <<s[m]>> \o SubSeqAt(s, S \ {m})

\* the keyword lines of a Gamess output, in the order the program prints them
GamessKeywords ==
  <<"geo", "basis", "mult", "occ", "occ", "final", "eigen", "nstates", "cis">>

\* a file with one atom, one shell, one orbital, one excited state
GamessSmall ==
  [todo |-> GamessKeywords, names |-> {"H"}, types |-> {"S"}, exps |-> {1}, bohr |-> {TRUE},
   occs |-> {1}, tdmkinds |-> {"end"},
   atoms |-> 1, blocks |-> 1, shells |-> 1, prims |-> 1, mos |-> 1, cols |-> 1, rows |-> 1,
   states |-> 1, tdmlines |-> 1, unit |-> "none", line |-> <<>>, electrons |-> <<>>]

\* the families of Gamess files: the files that lack some of the keyword
\* lines, and the files that are rich in one part
GamessFamilies ==
  { [GamessSmall EXCEPT !.todo = SubSeqAt(GamessKeywords, S)] :
      S \in SUBSET (1..Len(GamessKeywords)) }
  \cup
  { [GamessSmall EXCEPT !.todo = <<"geo", "geo">> \o Tail(GamessKeywords),
                        !.names = AtomNames, !.bohr = BOOLEAN, !.atoms = MaxAtoms],
    [GamessSmall EXCEPT !.names = AtomNames, !.types = {"S", "L"}, !.exps = ShellExps,
                        !.blocks = MaxBlocks, !.shells = MaxShells, !.prims = MaxPrim],
    [GamessSmall EXCEPT !.todo = <<"geo", "basis", "mult", "occ", "occ", "ecp", "occ", "occ",
                                   "final", "eigen", "eigen", "nstates", "cis">>,
                        !.mos = MaxMO, !.cols = MaxCols, !.rows = MaxRows,
                        !.occs = 0..MaxOcc],
    [GamessSmall EXCEPT !.states = MaxStates, !.tdmlines = MaxTdmLines,
                        !.tdmkinds = TdmKinds] }

\* the locals of read_gamess after its initialisation; defd holds the names
\* of the locals that are bound only once a line has assigned them
GamessLocals ==
  [occ |-> <<>>, AO |-> <<>>, geo_skip |-> 0, ao_skip |-> 0, mo_skip |-> 0, blast |-> FALSE,
   atom_count |-> 0, aa_to_au |-> FALSE, at_type |-> "", new_ao |-> FALSE, ao_type |-> <<>>,
   init_mo |-> FALSE, mo_new |-> FALSE, ene |-> FALSE, len_mo |-> 0, init_len |-> 0,
   tdm_flag |-> "None", tdm_nstates |-> 0, tdm_state |-> 0, tdm_trans_states |-> <<0, 0>>,
   gs_multi |-> 0, dipole_none |-> FALSE,
   tdm_state_dipole |-> <<>>, tdm_state_multiplicity |-> <<>>, tdm_state_energy |-> <<>>,
   tdm_tdm |-> <<>>,
   basis_set |-> <<>>, ii |-> 0, defd |-> {}]

InitGamess ==
  /\ parser = "gamess"
  /\ pc = "read"
  /\ err = "none"
  /\ all_mo \in BOOLEAN
  /\ il = 0
  /\ flines = <<>>
  /\ sec_flag = "False"
  /\ basis_count = 0
  /\ qc = QCinfo
  /\ loc = GamessLocals
  /\ lim \in GamessFamilies

GamessReading == parser = "gamess" /\ pc = "read"
\* the keyword lines of a file stand between its sections; kw is the next one
GamessBetween(kw) ==
  /\ GamessReading
  /\ sec_flag \in {"False", "None"}
  /\ lim.todo # <<>>
  /\ Head(lim.todo) = kw
GamessIn(s) == GamessReading /\ sec_flag = s

\* one pass through the loop body that changes sec_flag, qc and the locals
GamessStep(sf, q, l) ==
  /\ sec_flag' = sf
  /\ qc' = q
  /\ loc' = l
  /\ UNCHANGED <<parser, pc, err, all_mo, il, flines, basis_count, lim>>

\* the same for a keyword line
GamessKey(sf, q, l) ==
  /\ sec_flag' = sf
  /\ qc' = q
  /\ loc' = l
  /\ lim' = [lim EXCEPT !.todo = Tail(@)]
  /\ UNCHANGED <<parser, pc, err, all_mo, il, flines, basis_count>>

\* ' ATOM      ATOMIC                      COORDINATES' with or without (BOHR);
\* lim.unit keeps what the line read last said
GamessGeoHdr ==
  /\ GamessBetween("geo")
  /\ \E bohr \in lim.bohr :
       /\ sec_flag' = "geo_info"
       /\ loc' = [loc EXCEPT !.geo_skip = 1, !.atom_count = 1, !.aa_to_au = ~bohr]
       /\ lim' = [lim EXCEPT !.todo = Tail(@), !.unit = IF bohr THEN "(BOHR)" ELSE "(ANGS)"]
       /\ UNCHANGED <<parser, pc, err, all_mo, il, flines, basis_count, qc>>

\* 'ATOMIC BASIS SET'
GamessBasisHdr ==
  /\ GamessBetween("basis")
  /\ GamessKey("ao_info", qc, [loc EXCEPT !.ao_skip = 6, !.at_type = ""])

\* '          EIGENVECTORS'
GamessEigenHdr ==
  /\ GamessBetween("eigen")
  /\ GamessKey("mo_info", qc,
                [loc EXCEPT !.mo_skip = 1, !.init_mo = FALSE, !.mo_new = FALSE,
                            !.ene = FALSE, !.len_mo = 0])

\* 'CIS TRANSITION DIPOLE MOMENTS AND'
GamessCisHdr ==
  /\ GamessBetween("cis")
  /\ GamessKey("tdm_info", qc, [loc EXCEPT !.tdm_flag = "None", !.defd = @ \cup {"tdm_flag"}])

\* 'NUMBER OF STATES REQUESTED'
GamessNStates ==
  /\ GamessBetween("nstates")
  /\ \E n \in 1..lim.states :
       GamessKey(sec_flag, qc,
                  [loc EXCEPT !.tdm_nstates = n, !.dipole_none = TRUE,
                              !.defd = @ \cup {"tdm_state_dipole"}])

\* 'SPIN MULTIPLICITY'
GamessSpinMult ==
  /\ GamessBetween("mult")
  /\ GamessKey(sec_flag, qc, [loc EXCEPT !.gs_multi = 1, !.defd = @ \cup {"gs_multi"}])

\* 'FINAL'
GamessFinal ==
  /\ GamessBetween("final")
  /\ GamessKey(sec_flag, [qc EXCEPT !.etot = 1], loc)

\* ' NUMBER OF OCCUPIED ORBITALS (ALPHA|BETA ) [KEPT IS]  ='
GamessOcc ==
  /\ GamessBetween("occ")
  /\ \E n \in lim.occs :
       GamessKey(sec_flag, qc, [loc EXCEPT !.occ = Append(@, n)])

\* '          ECP POTENTIALS'
GamessEcp ==
  /\ GamessBetween("ecp")
  /\ GamessKey(sec_flag, qc, [loc EXCEPT !.occ = <<>>])

\* geometry section: a banner row to skip
GamessGeoSkip ==
  /\ GamessIn("geo_info")
  /\ loc.geo_skip # 0
  /\ GamessStep(sec_flag, qc, [loc EXCEPT !.geo_skip = @ - 1])

\* geometry section: the empty line that ends it
GamessGeoBlank ==
  /\ GamessIn("geo_info")
  /\ loc.geo_skip = 0
  /\ GamessStep("None", qc, loc)

\* geometry section: 'label charge x y z'
GamessGeoAtom ==
  /\ GamessIn("geo_info")
  /\ loc.geo_skip = 0
  /\ Len(qc.geo_info) < lim.atoms
  /\ \E label \in lim.names :
       GamessStep(sec_flag,
                  [qc EXCEPT !.geo_info = Append(@, [label |-> label, serial |-> loc.atom_count]),
                             !.geo_spec = Append(@, [converted |-> loc.aa_to_au])],
                  [loc EXCEPT !.atom_count = @ + 1])

\* thisline[1].lower().replace('l','sp'), as the list of its characters
AoTypeChars(t) == CASE t = "S" -> <<"s">> [] t = "L" -> <<"s", "p">> [] OTHER -> <<"p">>

\* the primitive line 'n TYPE k exponent c1 [c2]': thisline[3:]
ShellVals(t, e) == IF t = "L" THEN <<e, Contraction1, Contraction2>> ELSE <<e, Contraction1>>

\* basis section: a banner row to skip
GamessAoSkip ==
  /\ GamessIn("ao_info")
  /\ loc.ao_skip # 0
  /\ GamessStep(sec_flag, qc, [loc EXCEPT !.ao_skip = @ - 1])

\* the lines of a well-formed basis section: the empty line that closed a
\* shell is followed by a new shell, a new atom type or the end of the section
AoAfterBlank ==
  /\ loc.AO # <<>>
  /\ "new_ao" \in loc.defd
  /\ loc.new_ao
  /\ loc.AO[Len(loc.AO)] # <<>>

\* basis section: ' TOTAL NUMBER OF BASIS SET SHELLS'
GamessAoTotal ==
  /\ GamessIn("ao_info")
  /\ loc.ao_skip = 0
  /\ AoAfterBlank
  /\ GamessStep("None", qc, loc)

\* basis section: a line of one token, the atom type name
GamessAoAtomType ==
  /\ GamessIn("ao_info")
  /\ loc.ao_skip = 0
  /\ Len(loc.AO) < lim.blocks
  /\ loc.AO = <<>> \/ AoAfterBlank
  /\ \E name \in lim.names :
       GamessStep(sec_flag, qc,
                  [loc EXCEPT !.at_type = name, !.AO = Append(@, <<>>), !.new_ao = FALSE,
                              !.defd = @ \cup {"new_ao"}])

\* basis section: an empty line
GamessAoBlank ==
  /\ GamessIn("ao_info")
  /\ loc.ao_skip = 0
  /\ loc.AO # <<>> /\ ~loc.new_ao
  /\ IF "new_ao" \notin loc.defd THEN Fail("NameError")
     ELSE IF loc.new_ao = FALSE THEN GamessStep(sec_flag, qc, [loc EXCEPT !.new_ao = TRUE])
     ELSE Fail("IndexError")

\* the shells a first primitive line opens: one per character of ao_type
NewShells(at_type, chars, vals) ==
  [i \in 1..Len(chars) |->
     [atom_type |-> at_type, type |-> chars[i], pnum |-> 1,
      coeffs |-> << <<vals[1], vals[1 + i]>> >>]]

\* a further primitive line that extends the last shell only
AddPrimitiveLastOnly(block, chars, vals) ==
  [block EXCEPT ![Len(block)].coeffs = Append(@, <<vals[1], vals[Len(vals)]>>),
                ![Len(block)].pnum = @ + 1]

\* a further primitive line: one more pair for each of the last len(ao_type) shells
AddPrimitive(block, chars, vals) ==
  [j \in 1..Len(block) |->
     IF j > Len(block) - Len(chars)
       THEN [block[j] EXCEPT
               !.coeffs = Append(@, <<vals[1], vals[1 + (j - (Len(block) - Len(chars)))]>>),
               !.pnum = @ + 1]
       ELSE block[j]]

\* basis section: a primitive line; lim.line keeps the shell type and the
\* exponent of the line read last
GamessAoShell ==
  /\ GamessIn("ao_info")
  /\ loc.ao_skip = 0
  /\ loc.AO # <<>>
  /\ loc.new_ao \/ loc.AO[Len(loc.AO)] # <<>>
  /\ \E t \in lim.types, e \in lim.exps :
       LET vals  == ShellVals(t, e)
           chars == AoTypeChars(t)
           last  == Len(loc.AO)
       IN IF "new_ao" \notin loc.defd THEN Fail("NameError")
          ELSE IF loc.new_ao
            THEN /\ Len(loc.AO[last]) + Len(chars) <= lim.shells
                 /\ loc' = [loc EXCEPT !.ao_type = chars,
                                       !.AO[last] = @ \o NewShells(loc.at_type, chars, vals),
                                       !.new_ao = FALSE,
                                       !.defd = @ \cup {"ao_type"}]
                 /\ lim' = [lim EXCEPT !.line = <<t, e>>]
                 /\ UNCHANGED <<parser, pc, err, all_mo, il, flines, sec_flag, basis_count, qc>>
            ELSE IF "ao_type" \notin loc.defd THEN Fail("NameError")
            ELSE IF Len(loc.AO[last]) < Len(loc.ao_type) \/ Len(vals) < 1 + Len(loc.ao_type)
              THEN Fail("IndexError")
            ELSE /\ loc.AO[last][Len(loc.AO[last])].pnum < lim.prims
                 /\ chars = loc.ao_type
                 /\ loc' = [loc EXCEPT !.AO[last] = AddPrimitive(@, loc.ao_type, vals)]
                 /\ lim' = [lim EXCEPT !.line = <<t, e>>]
                 /\ UNCHANGED <<parser, pc, err, all_mo, il, flines, sec_flag, basis_count, qc>>

SymLabels == {"A1"}          \* symmetry labels of the orbitals

\* orbital section: a banner row to skip
GamessMoSkip ==
  /\ GamessIn("mo_info")
  /\ loc.mo_skip # 0
  /\ GamessStep(sec_flag, qc, [loc EXCEPT !.mo_skip = @ - 1])

\* the lines of a well-formed orbital section: every column block has as
\* many coefficient rows as the first one
MoRows == Len(qc.mo_spec[Len(qc.mo_spec)].coeffs)
MoBlockDone ==
  /\ loc.mo_new /\ loc.ene
  /\ MoRows >= 1
  /\ MoRows = Len(qc.mo_spec[1].coeffs)
MoBlockOpen == loc.init_mo /\ ~loc.mo_new

\* orbital section: '...... END OF RHF CALCULATION ......'
GamessMoEnd ==
  /\ GamessIn("mo_info")
  /\ loc.mo_skip = 0
  /\ MoBlockDone
  /\ GamessStep("None", qc, loc)

\* orbital section: an empty line
GamessMoBlank ==
  /\ GamessIn("mo_info")
  /\ loc.mo_skip = 0
  /\ MoBlockDone \/ MoBlockOpen \/ (~loc.init_mo /\ ~loc.mo_new)
  /\ GamessStep(IF loc.blast THEN "None" ELSE sec_flag, qc,
                [loc EXCEPT !.blast = TRUE, !.init_mo = TRUE, !.mo_new = FALSE, !.ene = FALSE])

\* the orbitals a column-index line allocates
NewOrbitals(n) == [i \in 1..n |-> [coeffs |-> <<>>, energy |-> 0, occ_num |-> 0, sym |-> <<>>]]

\* the last n orbitals of mo_spec, each changed by f(orbital, column)
OnLastOrbitals(mo_spec, n, f(_, _)) ==
  [j \in 1..Len(mo_spec) |->
     IF j > Len(mo_spec) - n THEN f(mo_spec[j], j - (Len(mo_spec) - n)) ELSE mo_spec[j]]

\* orbital section: a line of tokens. shape is what the line holds: the column
\* indices, the energies, the symmetry labels or a row of coefficients
GamessMoData ==
  /\ GamessIn("mo_info")
  /\ loc.mo_skip = 0
  /\ \E shape \in {"idx", "ene", "sym", "coef"}, n \in 1..lim.cols, label \in SymLabels :
       /\ (shape = "idx") <=> MoBlockOpen
       /\ (shape = "ene") <=> (loc.mo_new /\ ~loc.ene)
       /\ (shape = "sym") <=> (loc.mo_new /\ loc.ene /\ qc.mo_spec[Len(qc.mo_spec)].sym = <<>>)
       /\ (shape # "idx") => (n = loc.init_len)
       /\ LET ntok    == IF shape = "coef" THEN n + 4 ELSE n
              numeric == shape # "sym"
              SetEnergy(o, c) == [o EXCEPT !.energy = 1]
              SetSym(o, c)    == [o EXCEPT !.sym = <<loc.len_mo + c - 1, label>>]
              AddCoeff(o, c)  == [o EXCEPT !.coeffs = Append(@, 1)]
          IN IF loc.init_mo /\ ~loc.mo_new
               THEN /\ Len(qc.mo_spec) + ntok <= lim.mos
                    /\ GamessStep(sec_flag, [qc EXCEPT !.mo_spec = @ \o NewOrbitals(ntok)],
                                  [loc EXCEPT !.init_len = ntok, !.init_mo = FALSE, !.mo_new = TRUE,
                                              !.blast = FALSE, !.defd = @ \cup {"init_len"}])
             ELSE IF "init_len" \notin loc.defd THEN Fail("NameError")
             ELSE IF ntok = loc.init_len /\ ~loc.ene
               THEN IF ~numeric THEN Fail("ValueError")
                    ELSE GamessStep(sec_flag,
                           [qc EXCEPT !.mo_spec = OnLastOrbitals(@, loc.init_len, SetEnergy)],
                           [loc EXCEPT !.ene = TRUE])
             ELSE IF ntok = loc.init_len /\ loc.ene
               THEN /\ loc.len_mo < Len(qc.mo_spec)
                    /\ GamessStep(sec_flag,
                           [qc EXCEPT !.mo_spec = OnLastOrbitals(@, loc.init_len, SetSym)],
                           [loc EXCEPT !.len_mo = @ + loc.init_len])
             ELSE IF ~loc.init_mo /\ loc.mo_new
               THEN IF n < loc.init_len THEN Fail("IndexError")
                    ELSE IF ~numeric THEN Fail("ValueError")
                    ELSE /\ MoRows < (IF Len(qc.mo_spec) = loc.init_len THEN lim.rows
                                        ELSE Len(qc.mo_spec[1].coeffs))
                         /\ GamessStep(sec_flag,
                              [qc EXCEPT !.mo_spec = OnLastOrbitals(@, loc.init_len, AddCoeff)],
                              loc)
             ELSE GamessStep(sec_flag, qc, loc)

\* numpy.zeros of the four transition-dipole arrays for n excited states
TdmZeros(n) ==
  [tdm_state_dipole       |-> [i \in 0..n |-> 0],
   tdm_state_multiplicity |-> [i \in 0..n |-> 0],
   tdm_state_energy       |-> [i \in 0..n |-> 0],
   tdm_tdm                |-> [i \in 0..(n - 1) |-> [j \in 0..n |-> 0]]]

\* transition-dipole section: any line. kind is the marker the line holds;
\* s and t are the state numbers printed on it
GamessTdmLine ==
  /\ GamessIn("tdm_info")
  /\ lim.tdmlines > 0
  /\ lim' = [lim EXCEPT !.tdmlines = @ - 1]
  /\ UNCHANGED <<parser, all_mo, il, flines, basis_count>>
  /\ \E kind \in lim.tdmkinds,
        s \in 1..lim.states, t \in 1..lim.states :
       LET n    == loc.tdm_nstates
           \* lines 396-401
           l0   == IF loc.dipole_none
                     THEN [loc EXCEPT !.tdm_state_dipole = TdmZeros(n).tdm_state_dipole,
                                      !.tdm_state_multiplicity = TdmZeros(n).tdm_state_multiplicity,
                                      !.tdm_state_energy = TdmZeros(n).tdm_state_energy,
                                      !.tdm_tdm = TdmZeros(n).tdm_tdm,
                                      !.dipole_none = FALSE,
                                      !.defd = @ \cup {"tdm_arrays"}]
                     ELSE loc
           \* lines 402-408: debye, converted to atomic units
           l1   == IF kind = "ground" THEN [l0 EXCEPT !.tdm_state_dipole[0] = 2] ELSE l0
           \* lines 410-423
           l2   == CASE kind = "state"  -> [l1 EXCEPT !.tdm_state = s, !.tdm_flag = "state_info"]
                     [] kind = "trans0" -> [l1 EXCEPT !.tdm_trans_states = <<0, s>>,
                                                      !.tdm_flag = "transition_info"]
                     [] kind = "trans"  -> [l1 EXCEPT !.tdm_trans_states = <<s, t>>,
                                                      !.tdm_flag = "transition_info"]
                     [] kind = "end"    -> [l1 EXCEPT !.tdm_flag = "None"]
                     [] OTHER           -> l1
           sf   == IF kind = "end" THEN "None" ELSE sec_flag
           st   == l2.tdm_state
           t0   == l2.tdm_trans_states[1]
           t1   == l2.tdm_trans_states[2]
           Done(l) == sec_flag' = sf /\ loc' = l /\ qc' = qc /\ UNCHANGED <<pc, err>>
           Raise(e) == pc' = "failed" /\ err' = e /\ UNCHANGED <<sec_flag, loc, qc>>
       IN IF "tdm_state_dipole" \notin loc.defd THEN Raise("NameError")
          \* lines 424-433
          ELSE IF l2.tdm_flag = "state_info" /\ kind \in {"mult", "energy", "ebohr"}
            THEN IF st > n THEN Raise("IndexError")
                 ELSE CASE kind = "mult"   -> Done([l2 EXCEPT !.tdm_state_multiplicity[st] = 1])
                        [] kind = "energy" -> Done([l2 EXCEPT !.tdm_state_energy[st] = 1])
                        [] OTHER           -> Done([l2 EXCEPT !.tdm_state_dipole[st] = 1])
          \* lines 434-440
          ELSE IF l2.tdm_flag = "transition_info" /\ kind = "ebohr"
            THEN IF t0 > n - 1 \/ t1 > n THEN Raise("IndexError")
                 ELSE Done([l2 EXCEPT !.tdm_tdm[t0][t1] = 1])
          ELSE Done(l2)

\* the end of the file ends the line loop
GamessEOF ==
  /\ GamessReading
  /\ lim.todo = <<>>
  /\ sec_flag \in {"False", "None"} \/ (sec_flag = "tdm_info" /\ lim.tdmlines = 0)
  /\ pc' = "basis"
  /\ UNCHANGED <<parser, err, all_mo, il, flines, sec_flag, basis_count, qc, loc, lim>>

\* 'Check usage of same atomic basis sets': the loop over the blocks AO[ii],
\* from block ii on, with the dictionary basis_set built so far
RECURSIVE CheckBasis(_, _, _)
CheckBasis(AO, ii, basis_set) ==
  IF ii > Len(AO) THEN [err |-> "none", basis_set |-> basis_set]
  ELSE IF AO[ii] = <<>> THEN [err |-> "IndexError", basis_set |-> basis_set]
  ELSE LET name == AO[ii][1].atom_type
       IN IF name \notin DOMAIN basis_set
            THEN CheckBasis(AO, ii + 1, basis_set @@ (name :> AO[ii]))
          ELSE LET first == basis_set[name]
                   stop  == {jj \in 1..Len(AO[ii]) :
                               \/ jj > Len(first)
                               \/ AO[ii][jj].coeffs # first[jj].coeffs}
                   jj0   == CHOOSE jj \in stop : \A k \in stop : jj <= k
               IN IF stop = {} THEN CheckBasis(AO, ii + 1, basis_set)
                  ELSE IF jj0 > Len(first) THEN [err |-> "IndexError", basis_set |-> basis_set]
                  ELSE [err |-> "IOError: Different basis sets for the same atom.",
                        basis_set |-> basis_set]

GamessBasisCheck ==
  /\ parser = "gamess" /\ pc = "basis"
  /\ LET r == CheckBasis(loc.AO, 1, <<>>)
     IN IF r.err # "none" THEN Fail(r.err)
        ELSE /\ loc' = [loc EXCEPT !.basis_set = r.basis_set]
             /\ pc' = "complement"
             /\ UNCHANGED <<parser, err, all_mo, il, flines, sec_flag, basis_count, qc, lim>>

\* the complement with every shell tagged with the serial number itself
RECURSIVE ComplementSerial(_, _, _)
ComplementSerial(geo_info, kk, basis_set) ==
  IF kk > Len(geo_info) THEN <<>>
  ELSE LET shells == basis_set[geo_info[kk].label]
       IN [ll \in 1..Len(shells) |->
             [atom |-> geo_info[kk].serial, type |-> shells[ll].type,
              pnum |-> shells[ll].pnum, coeffs |-> shells[ll].coeffs]]
          \o ComplementSerial(geo_info, kk + 1, basis_set)

\* 'Complement atomic basis sets': the shells of the atoms kk.. of geo_info
RECURSIVE Complement(_, _, _)
Complement(geo_info, kk, basis_set) ==
  IF kk > Len(geo_info) THEN <<>>
  ELSE LET shells == basis_set[geo_info[kk].label]
       IN [ll \in 1..Len(shells) |->
             [atom |-> geo_info[kk].serial - 1, type |-> shells[ll].type,
              pnum |-> shells[ll].pnum, coeffs |-> shells[ll].coeffs]]
          \o Complement(geo_info, kk + 1, basis_set)

\* lim.electrons keeps the list occ as the occupation loop finds it
GamessComplement ==
  /\ parser = "gamess" /\ pc = "complement"
  /\ IF \E kk \in 1..Len(qc.geo_info) : qc.geo_info[kk].label \notin DOMAIN loc.basis_set
       THEN Fail("KeyError")
       ELSE /\ qc' = [qc EXCEPT !.ao_spec = @ \o Complement(qc.geo_info, 1, loc.basis_set)]
            /\ pc' = "occ"
            /\ loc' = [loc EXCEPT !.ii = 1]
            /\ lim' = [lim EXCEPT !.electrons = loc.occ]
            /\ UNCHANGED <<parser, err, all_mo, il, flines, sec_flag, basis_count>>

\* the occupation loop with no orbital given more than two electrons
OccAssignCapped(a, b) ==
  LET s1 == IF a # 0 /\ b # 0 THEN [add |-> 2, a |-> a - 1, b |-> b - 1]
            ELSE [add |-> 0, a |-> a, b |-> b]
      s2 == IF s1.a = 0 /\ s1.b # 0 THEN [s1 EXCEPT !.add = 1, !.b = @ - 1] ELSE s1
      s3 == IF s2.b = 0 /\ s2.a # 0 THEN [s2 EXCEPT !.add = 1, !.a = @ - 1] ELSE s2
  IN [s3 EXCEPT !.add = IF s1.add = 2 THEN 2 ELSE @]

\* the body of the occupation loop for the counters a = occ[0], b = occ[1]:
\* three if statements in a row, each on the counters the one before left
OccAssign(a, b) ==
  LET s1 == IF a # 0 /\ b # 0 THEN [add |-> 2, a |-> a - 1, b |-> b - 1]
            ELSE [add |-> 0, a |-> a, b |-> b]
      s2 == IF s1.a = 0 /\ s1.b # 0 THEN [s1 EXCEPT !.add = @ + 1, !.b = @ - 1] ELSE s1
      s3 == IF s2.b = 0 /\ s2.a # 0 THEN [s2 EXCEPT !.add = @ + 1, !.a = @ - 1] ELSE s2
  IN s3

\* one iteration of the occupation loop, for the orbital loc.ii
GamessOccStep ==
  /\ parser = "gamess" /\ pc = "occ"
  /\ loc.ii <= Len(qc.mo_spec)
  /\ IF Len(loc.occ) < 2 THEN Fail("IndexError")
     ELSE LET r == OccAssign(loc.occ[1], loc.occ[2])
          IN /\ qc' = [qc EXCEPT !.mo_spec[loc.ii].occ_num = @ + r.add * OccUnit]
             /\ loc' = [loc EXCEPT !.occ[1] = r.a, !.occ[2] = r.b, !.ii = @ + 1]
             /\ UNCHANGED <<parser, pc, err, all_mo, il, flines, sec_flag, basis_count, lim>>

\* 'save results from a CIS calculation to qc' and return qc
GamessSaveTdm ==
  /\ parser = "gamess" /\ pc = "occ"
  /\ loc.ii > Len(qc.mo_spec)
  /\ IF "tdm_arrays" \notin loc.defd \/ "gs_multi" \notin loc.defd THEN Fail("NameError")
     ELSE /\ qc' = [qc EXCEPT
                      !.tdm_states = [multiplicity |-> [loc.tdm_state_multiplicity EXCEPT ![0] = loc.gs_multi],
                                      energy |-> [loc.tdm_state_energy EXCEPT ![0] = qc.etot],
                                      dipole |-> loc.tdm_state_dipole],
                      !.tdm_transitions = [dipole |-> loc.tdm_tdm]]
          /\ pc' = "done"
          /\ UNCHANGED <<parser, err, all_mo, il, flines, sec_flag, basis_count, loc, lim>>

NextGamess ==
  \/ GamessGeoHdr \/ GamessBasisHdr \/ GamessEigenHdr \/ GamessCisHdr \/ GamessNStates
  \/ GamessSpinMult \/ GamessFinal \/ GamessOcc \/ GamessEcp
  \/ GamessGeoSkip \/ GamessGeoBlank \/ GamessGeoAtom
  \/ GamessAoSkip \/ GamessAoTotal \/ GamessAoAtomType \/ GamessAoBlank \/ GamessAoShell
  \/ GamessMoSkip \/ GamessMoEnd \/ GamessMoBlank \/ GamessMoData
  \/ GamessTdmLine
  \/ GamessEOF \/ GamessBasisCheck \/ GamessComplement \/ GamessOccStep \/ GamessSaveTdm

SpecGamess == InitGamess /\ [][NextGamess]_vars

(***************************************************************************)
(* Claims about read_gamess                                                *)
(***************************************************************************)
Returned == pc = "done"

\* C2: a call with all_mo = False returns a record in which every orbital
\* has an occupation number above 1e-7
C2_OnlyOccupiedReturned ==
  (Returned /\ ~all_mo) =>
    \A i \in 1..Len(qc.mo_spec) : qc.mo_spec[i].occ_num > OccThreshold

\* the occupation the specification gives an orbital for the counters (a, b)
RuleOcc(a, b) == IF a > 0 /\ b > 0 THEN 2 ELSE IF a > 0 \/ b > 0 THEN 1 ELSE 0
RuleAlpha(a, b) == IF a > 0 /\ (b > 0 \/ b = 0) THEN a - 1 ELSE a
RuleBeta(a, b) == IF b > 0 THEN b - 1 ELSE b

\* C4: in read_gamess every orbital, in file order, gets occupation 2 if both
\* counters are positive (both decremented), else 1 if exactly one is positive
\* (that one decremented), else 0; so every occupation is 0, 1 or 2
C4_OccupationRule ==
  [][(parser = "gamess" /\ pc = "occ" /\ pc' = "occ" /\ loc'.ii = loc.ii + 1) =>
       LET a == loc.occ[1]
           b == loc.occ[2]
           o == qc'.mo_spec[loc.ii].occ_num
       IN /\ o = RuleOcc(a, b) * OccUnit
          /\ o \in {0, OccUnit, 2 * OccUnit}
          /\ loc'.occ[1] = RuleAlpha(a, b)
          /\ loc'.occ[2] = RuleBeta(a, b)]_vars

\* two basis-set blocks with the same atom type name that are not identical
\* shell for shell
SameShells(x, y) ==
  /\ Len(x) = Len(y)
  /\ \A jj \in 1..Len(x) : x[jj].coeffs = y[jj].coeffs
InconsistentBasis(AO) ==
  \E i, j \in 1..Len(AO) :
    /\ i < j
    /\ AO[i] # <<>> /\ AO[j] # <<>>
    /\ AO[i][1].atom_type = AO[j][1].atom_type
    /\ ~SameShells(AO[i], AO[j])

\* C5: a file in which two basis-set blocks of the same atom type differ
\* never gets past the consistency check: the parse fails there
C5_InconsistentBasisFails ==
  (parser = "gamess" /\ pc \in {"complement", "occ", "done"}) => ~InconsistentBasis(loc.AO)

\* the file held no 'CIS TRANSITION DIPOLE MOMENTS', 'NUMBER OF STATES
\* REQUESTED' or 'SPIN MULTIPLICITY' line
NoTdmLines == loc.defd \cap {"tdm_flag", "tdm_state_dipole", "gs_multi"} = {}
\* the occupation loop is over: the next statement saves the CIS results
AfterOccLoop == loc.ii > Len(qc.mo_spec)

\* C6: a file with geometry, basis and orbitals but without transition-dipole
\* lines is parsed successfully, its transition-dipole data left unpopulated
C6_TdmOptional ==
  (/\ parser = "gamess" /\ NoTdmLines /\ AfterOccLoop /\ pc # "occ"
   /\ qc.geo_info # <<>> /\ qc.ao_spec # <<>> /\ qc.mo_spec # <<>>) =>
    (Returned /\ qc.tdm_states = "empty" /\ qc.tdm_transitions = "empty")

(***************************************************************************)
(* read_gaussian_log: the lines of a .log file                             *)
(***************************************************************************)
MaxGeoSections == 4          \* geometry sections of a .log file
MaxAoSections == 2           \* 'AO basis set' sections of a .log file
MaxMoBlocks == 3             \* 'Orbital Coefficients:' blocks of a .log file
MaxSel == 2                  \* largest index argument i_geo, i_ao, i_mo

Orientations == {"standard", "input"}
MoTypes == {"Molecular", "Alpha", "Beta", "Natural"}

\* a line of the file: the keyword or layout the readers test (k), the word
\* they take from it (s), the numbers they convert (v) and, where they work
\* on the characters of a word, these characters (w)
LogLine(k, s, v) == [k |-> k, s |-> s, v |-> v, w |-> <<>>]

\* the concatenation of a sequence of line sequences
RECURSIVE Flatten(_)
Flatten(ss) == IF ss = <<>> THEN <<>> ELSE Head(ss) \o Flatten(Tail(ss))

\* ' Standard orientation:' or ' Input orientation:', the four banner rows,
\* one row 'center atomic-number type x y z' for each atom and the closing
\* rule; the coordinates of section number tag are written as tag
GeoSection(o, tag, natoms) ==
  <<LogLine("orient", o, <<>>), LogLine("dash", "", <<>>), LogLine("text", "", <<>>),
    LogLine("text", "", <<>>), LogLine("dash", "", <<>>)>>
  \o [i \in 1..natoms |-> LogLine("atom", "", <<i, 1, tag>>)]
  \o <<LogLine("dash", "", <<>>)>>

GeoPart(os, natoms) == Flatten([i \in 1..Len(os) |-> GeoSection(os[i], i, natoms)])

\* ao_type as the list of its characters
LogTypeChars(t) == CASE t = "sp" -> <<"s", "p">> [] t = "p" -> <<"p">> [] OTHER -> <<"s">>

\* one shell of an 'AO basis set' section: 'TYPE pnum scale 0.0' and pnum
\* rows 'exponent c1 [c2]'
ShellLines(t, pnum) ==
  <<LogLine("shell", t, <<pnum>>)>>
  \o [i \in 1..pnum |-> LogLine("prim", "",
                                 <<i>> \o [c \in 1..Len(LogTypeChars(t)) |-> Contraction1 + c - 1])]

\* 'AO basis set', then for each atom its number, its shells and ' ****';
\* the empty line after the last ' ****' ends the section
AoSection(atoms) ==
  <<LogLine("aohdr", "", <<>>)>>
  \o Flatten([a \in 1..Len(atoms) |->
                <<LogLine("center", "", <<a, 0>>)>>
                \o Flatten([j \in 1..Len(atoms[a]) |-> ShellLines(atoms[a][j], MaxPrim)])
                \o <<LogLine("stars", "", <<>>)>>])
  \o <<LogLine("blank", "", <<>>)>>

\* the number of basis functions of such a section
RECURSIVE AoSize(_)
AoSize(atoms) ==
  IF atoms = <<>> THEN 0
  ELSE SumSeq([j \in 1..Len(Head(atoms)) |->
                 SumSeq([c \in 1..Len(LogTypeChars(Head(atoms)[j])) |->
                           l_deg(lquant(LogTypeChars(Head(atoms)[j])[c]))])])
       + AoSize(Tail(atoms))

\* 'Orbital symmetries:', one row of labels, 'The electronic state is'
SymSection(labels) ==
  <<LogLine("symhdr", "", <<>>), LogLine("syms", "", labels), LogLine("state", "", <<>>)>>

\* 'TYPE Orbital Coefficients:' and the column blocks of norb orbitals over
\* bc basis functions: the orbital numbers, the O/V marks (1 for O), the
\* eigenvalues, and one row of coefficients for each basis function
MoBlock(type, bc, norb, occ, eig) ==
  LET nchunks == (norb + MaxCols - 1) \div MaxCols
      Chunk(c) ==
        LET lo == (c - 1) * MaxCols
            n  == IF norb - lo < MaxCols THEN norb - lo ELSE MaxCols
        IN <<LogLine("moidx", "", [i \in 1..n |-> lo + i]),
             LogLine("moocc", "", [i \in 1..n |-> occ[lo + i]]),
             LogLine("moeig", "", [i \in 1..n |-> eig[lo + i]])>>
           \o [r \in 1..bc |-> LogLine("mocoef", "", <<r>> \o [i \in 1..n |-> lo + i])]
  IN <<LogLine("mohdr", type, <<>>)>> \o Flatten([c \in 1..nchunks |-> Chunk(c)])

\* all sequences over S of length 0..n
SeqsUpTo(S, n) == UNION {[1..m -> S] : m \in 0..n}

\* the basis sets of the model files: per atom the types of its shells
LogAtomsS == << <<"s">> >>
LogAtoms2 == << <<"s">>, <<"s">> >>
LogAtomsSP == << <<"sp">> >>
AoConfigs == {LogAtomsS, LogAtoms2, LogAtomsSP}
BasisLines == {"(6D, 10F)", "(5D, 7F)"}     \* the end of a 'Standard basis:' line
NaturalOccs == {0, OccThreshold, 2 * OccUnit} \* eigenvalues of a Natural block

EnergyLine == <<LogLine("energy", "", <<1>>)>>
\* a restricted orbital block over bc basis functions, the first orbital occupied
StdMo(bc) == MoBlock("Molecular", bc, bc, [i \in 1..bc |-> IF i = 1 THEN 1 ELSE 0],
                     [i \in 1..bc |-> i])
LastOr(ss, d) == IF ss = <<>> THEN d ELSE ss[Len(ss)]

\* the families of .log files: every mix of geometry sections, every run of
\* basis-set sections, every run of orbital blocks, every occupation pattern
LogFamilies ==
  { [files  |-> { GeoPart(os, 1) \o AoSection(LogAtomsS) \o EnergyLine \o StdMo(1) :
                    os \in SeqsUpTo(Orientations, MaxGeoSections) }
                \cup { GeoPart(<<"standard">>, MaxAtoms) \o AoSection(LogAtomsS) \o StdMo(1) },
     orient |-> Orientations, i_geo |-> -1..MaxSel, i_ao |-> {-1}, i_mo |-> {-1}],
    [files  |-> { GeoPart(<<"standard">>, 1) \o b
                  \o Flatten([i \in 1..Len(cfgs) |-> AoSection(cfgs[i])])
                  \o StdMo(AoSize(LastOr(cfgs, <<>>))) :
                    cfgs \in SeqsUpTo(AoConfigs, MaxAoSections),
                    b \in {<<>>} \cup {<<LogLine("basis", e, <<>>)>> : e \in BasisLines} },
     orient |-> {"standard"}, i_geo |-> {-1}, i_ao |-> -1..MaxSel, i_mo |-> {-1}],
    [files  |-> { GeoPart(<<"standard">>, 1) \o AoSection(LogAtoms2) \o sym
                  \o Flatten([i \in 1..Len(types) |->
                                MoBlock(types[i], 2, 2, <<1, 0>>, <<2 * OccUnit, 0>>)]) :
                    types \in SeqsUpTo(MoTypes, MaxMoBlocks),
                    sym \in {<<>>, SymSection(<<1, 2>>), SymSection(<<1, 1>>)} },
     orient |-> {"standard"}, i_geo |-> {-1}, i_ao |-> {-1}, i_mo |-> -1..MaxSel],
    [files  |-> { GeoPart(<<"standard">>, 1) \o AoSection(LogAtoms2)
                  \o MoBlock(t, 2, 2, occ, eig) :
                    t \in {"Molecular", "Natural"}, occ \in [1..2 -> {0, 1}],
                    eig \in [1..2 -> NaturalOccs] },
     orient |-> {"standard"}, i_geo |-> {-1}, i_ao |-> {-1}, i_mo |-> {-1}] }

\* the arguments and the locals of read_gaussian_log
LogLocals(o, g, a, m) ==
  [args |-> [orientation |-> o, i_geo |-> g, i_ao |-> a, i_mo |-> m],
   orientation |-> o, i_geo |-> g, i_ao |-> a, i_mo |-> m,
   count |-> [geometry |-> 0, geometry_input |-> 0, atomic_orbitals |-> 0,
              molecular_orbitals |-> <<>>, state |-> <<>>],
   mo_type |-> "", skip |-> 0, c_geo |-> 0, c_ao |-> 0, c_mo |-> 0,
   orb_sym |-> <<>>, index |-> <<>>, bNew |-> FALSE, offset |-> 0, add |-> "",
   at_num |-> 0, ao_num |-> 0, ao_type |-> <<>>]

InitLog ==
  /\ parser = "log"
  /\ pc = "census"
  /\ err = "none"
  /\ all_mo \in BOOLEAN
  /\ il = 1
  /\ sec_flag = "None"
  /\ basis_count = 0
  /\ qc = QCinfo
  /\ lim = <<>>
  /\ \E fam \in LogFamilies :
       /\ flines \in fam.files
       /\ \E o \in fam.orient, g \in fam.i_geo, a \in fam.i_ao, m \in fam.i_mo :
            loc = LogLocals(o, g, a, m)

\* check_sel with a negative index resolved one place too far from the end
check_sel_one_off(count, i) ==
  IF count = 0 THEN [err |-> "IndexError", i |-> i]
  ELSE IF count = 1 THEN [err |-> "none", i |-> 0]
  ELSE IF i >= count \/ i < -count
    THEN [err |-> "IOError: Please give an integer from 0 to count-1!", i |-> i]
  ELSE [err |-> "none", i |-> IF i < 0 THEN i + count - 1 ELSE i]

\* check_sel with the index checked against the range also for count 1
check_sel_checked(count, i) ==
  IF count = 0 THEN [err |-> "IndexError", i |-> i]
  ELSE IF i >= count \/ i < -count
    THEN [err |-> "IOError: Please give an integer from 0 to count-1!", i |-> i]
  ELSE [err |-> "none", i |-> IF i < 0 THEN i + count ELSE i]

\* the nested function check_sel with interactive = False
check_sel(count, i) ==
  IF count = 0 THEN [err |-> "IndexError", i |-> i]
  ELSE IF count = 1 THEN [err |-> "none", i |-> 0]
  ELSE IF i >= count \/ i < -count
    THEN [err |-> "IOError: Please give an integer from 0 to count-1!", i |-> i]
  ELSE [err |-> "none", i |-> IF i < 0 THEN i + count ELSE i]

\* the first loop over the lines: il is the number of the line it is at
LogCensus(k) == parser = "log" /\ pc = "census" /\ il <= Len(flines) /\ flines[il].k = k

\* the loop goes on to the next line with the locals l
LogAdvance(l) ==
  /\ il' = il + 1
  /\ loc' = l
  /\ UNCHANGED <<parser, pc, err, all_mo, flines, sec_flag, basis_count, qc, lim>>

\* ' orientation:'
LogCensusOrientation ==
  /\ LogCensus("orient")
  /\ LET o  == flines[il].s
         c1 == IF o = loc.orientation THEN [loc.count EXCEPT !.geometry = @ + 1] ELSE loc.count
         c2 == IF o = "input" THEN [c1 EXCEPT !.geometry_input = @ + 1] ELSE c1
     IN LogAdvance([loc EXCEPT !.count = c2])

\* 'Standard basis:'
LogCensusBasis ==
  /\ LogCensus("basis")
  /\ IF flines[il].s # "(6D, 10F)"
       THEN Fail("IOError: Please apply a Cartesian Gaussian Basis Sets (6D, 10F)!")
       ELSE LogAdvance(loc)

\* 'AO basis set'
LogCensusAO ==
  /\ LogCensus("aohdr")
  /\ LogAdvance([loc EXCEPT !.count.atomic_orbitals = @ + 1])

\* 'The electronic state is '
LogCensusState ==
  /\ LogCensus("state")
  /\ LogAdvance([loc EXCEPT !.count.state = Append(@, "1-A1")])

\* 'Orbital Coefficients:'
LogCensusMO ==
  /\ LogCensus("mohdr")
  /\ LET mo_type == flines[il].s
         mos     == loc.count.molecular_orbitals
     IN IF mo_type # "Beta"
          THEN LogAdvance([loc EXCEPT !.mo_type = mo_type,
                                      !.count.molecular_orbitals = Append(@, mo_type)])
        ELSE IF mos = <<>> THEN Fail("IndexError")
        ELSE LogAdvance([loc EXCEPT !.mo_type = mo_type,
                                    !.count.molecular_orbitals[Len(mos)] = "Alpha&Beta"])

\* a line without any of these keywords
LogCensusOther ==
  /\ parser = "log" /\ pc = "census" /\ il <= Len(flines)
  /\ flines[il].k \notin {"orient", "basis", "aohdr", "state", "mohdr"}
  /\ LogAdvance(loc)

\* the position changes to p with the locals l
LogGoto(p, l) ==
  /\ pc' = p
  /\ loc' = l
  /\ UNCHANGED <<parser, err, all_mo, il, flines, sec_flag, basis_count, qc, lim>>

LogCensusEnd ==
  /\ parser = "log" /\ pc = "census" /\ il > Len(flines)
  /\ LogGoto("sel_geo", loc)

\* the selection of the geometry section, with the second try
NoGeometry == "IOError: Found no geometry section! Are you sure this is a GAUSSIAN .log file?"
\* the selection of the geometry section without the second try
LogSelectGeoNoRetry ==
  /\ parser = "log" /\ pc = "sel_geo"
  /\ LET r1 == check_sel(loc.count.geometry, loc.i_geo)
     IN IF r1.err = "none" THEN LogGoto("sel_ao", [loc EXCEPT !.i_geo = r1.i])
        ELSE IF r1.err = "IndexError" THEN Fail(NoGeometry)
        ELSE Fail(r1.err)

LogSelectGeo ==
  /\ parser = "log" /\ pc = "sel_geo"
  /\ LET r1 == check_sel(loc.count.geometry, loc.i_geo)
         l1 == [loc EXCEPT !.count.geometry = loc.count.geometry_input, !.orientation = "input"]
         r2 == check_sel(l1.count.geometry, loc.i_geo)
     IN IF r1.err = "none" THEN LogGoto("sel_ao", [loc EXCEPT !.i_geo = r1.i])
        ELSE IF r1.err # "IndexError" THEN Fail(r1.err)
        ELSE IF r2.err = "none" THEN LogGoto("sel_ao", [l1 EXCEPT !.i_geo = r2.i])
        ELSE IF r2.err = "IndexError" THEN Fail(NoGeometry)
        ELSE Fail(r2.err)

\* the selection of the basis-set section
LogSelectAO ==
  /\ parser = "log" /\ pc = "sel_ao"
  /\ LET r == check_sel(loc.count.atomic_orbitals, loc.i_ao)
     IN IF r.err = "none" THEN LogGoto("sel_mo", [loc EXCEPT !.i_ao = r.i])
        ELSE IF r.err = "IndexError"
          THEN Fail("IOError: Write GFINPUT in your GAUSSIAN route section")
        ELSE Fail(r.err)

\* the selection of the orbital section and the initialisation of the second loop
LogSelectMO ==
  /\ parser = "log" /\ pc = "sel_mo"
  /\ LET r == check_sel(Len(loc.count.molecular_orbitals), loc.i_mo)
     IN IF r.err # "none" THEN Fail(r.err)
        ELSE /\ pc' = "extract"
             /\ il' = 1
             /\ basis_count' = 0
             /\ sec_flag' = "None"
             /\ qc' = QCinfo
             /\ loc' = [loc EXCEPT !.i_mo = r.i, !.skip = 0, !.c_geo = 0, !.c_ao = 0,
                                   !.c_mo = 0, !.orb_sym = <<>>, !.index = <<>>]
             /\ UNCHANGED <<parser, err, all_mo, flines, lim>>

(***************************************************************************)
(* read_gaussian_log: the second loop over the lines                       *)
(***************************************************************************)
LogExtract == parser = "log" /\ pc = "extract" /\ il <= Len(flines)

\* one pass through the body of the second loop
LogStep(sf, bc, q, l) ==
  /\ il' = il + 1
  /\ sec_flag' = sf
  /\ basis_count' = bc
  /\ qc' = q
  /\ loc' = l
  /\ UNCHANGED <<parser, pc, err, all_mo, flines, lim>>

\* '%s orientation:' % orientation
LogOrientation ==
  /\ LogExtract
  /\ flines[il].k = "orient" /\ flines[il].s = loc.orientation
  /\ IF loc.i_geo = loc.c_geo
       THEN LogStep("geo_info", basis_count, [qc EXCEPT !.geo_info = <<>>, !.geo_spec = <<>>],
                    [loc EXCEPT !.c_geo = @ + 1, !.skip = 4])
       ELSE LogStep(sec_flag, basis_count, qc, [loc EXCEPT !.c_geo = @ + 1, !.skip = 4])

\* 'Standard basis:'
LogBasis ==
  /\ LogExtract
  /\ flines[il].k = "basis"
  /\ IF flines[il].s # "(6D, 10F)"
       THEN Fail("IOError: Please apply a Cartesian Gaussian Basis Sets (6D, 10F)!")
       ELSE LogStep(sec_flag, basis_count, qc, loc)

\* 'AO basis set'
LogAOHeader ==
  /\ LogExtract
  /\ flines[il].k = "aohdr"
  /\ IF loc.i_ao = loc.c_ao
       THEN LogStep("ao_info", 0, [qc EXCEPT !.ao_spec = <<>>],
                    [loc EXCEPT !.c_ao = @ + 1, !.bNew = TRUE])
       ELSE LogStep(sec_flag, 0, qc, [loc EXCEPT !.c_ao = @ + 1, !.bNew = TRUE])

\* 'Orbital symmetries:'
LogSymHeader ==
  /\ LogExtract
  /\ flines[il].k = "symhdr"
  /\ LogStep("mo_sym", basis_count, qc, [loc EXCEPT !.add = "", !.orb_sym = <<>>])

\* the key occ_num of an orbital that no line has set yet
NoKey == -1
\* 'Alpha' in mo_type, 'Beta' in mo_type, mo_type in 'Alpha&Beta'
HasAlpha(t) == t \in {"Alpha", "Alpha&Beta"}
HasBeta(t) == t \in {"Beta", "Alpha&Beta"}
InAlphaBeta(t) == t \in {"Alpha", "Beta", "Alpha&Beta"}

\* the labels of the orbitals when no 'Orbital symmetries:' section gave them
DefaultSym(mo_type, bc) ==
  [i \in 1..bc |-> <<1, IF HasAlpha(mo_type) THEN "(a)" ELSE "">>]
  \o (IF HasBeta(mo_type) THEN [i \in 1..bc |-> <<1, "(b)">>] ELSE <<>>)

\* orbitals numbered by their position in orb_sym
LogNewOrbitalsByPosition(orb_sym, bc) ==
  [i \in 1..Len(orb_sym) |->
     [coeffs |-> [r \in 1..bc |-> 0], energy |-> 0, occ_num |-> NoKey,
      sym |-> <<i>> \o orb_sym[i]]]

\* the orbitals allocated for the labels orb_sym
LogNewOrbitals(orb_sym, bc) ==
  [i \in 1..Len(orb_sym) |->
     [coeffs |-> [r \in 1..bc |-> 0], energy |-> 0, occ_num |-> NoKey,
      sym |-> <<Cardinality({k \in 1..i : orb_sym[k] = orb_sym[i]})>> \o orb_sym[i]]]

\* 'Orbital Coefficients:'
LogMOHeader ==
  /\ LogExtract
  /\ flines[il].k = "mohdr"
  /\ LET sel     == loc.i_mo = loc.c_mo
         mo_type == IF sel THEN loc.count.molecular_orbitals[loc.i_mo + 1] ELSE loc.mo_type
         orb_sym == IF sel /\ loc.orb_sym = <<>> THEN DefaultSym(mo_type, basis_count)
                    ELSE loc.orb_sym
         add     == IF ~sel THEN loc.add
                    ELSE IF loc.orb_sym # <<>> THEN ""
                    ELSE IF HasBeta(mo_type) THEN "(b)"
                    ELSE IF HasAlpha(mo_type) THEN "(a)" ELSE ""
         l1      == IF sel THEN [loc EXCEPT !.mo_type = mo_type, !.offset = 0, !.add = add,
                                            !.orb_sym = orb_sym]
                    ELSE loc
         l2      == [l1 EXCEPT !.c_mo = IF mo_type # "Beta" THEN @ + 1 ELSE @, !.bNew = TRUE]
     IN IF sel
          THEN LogStep("mo_info", basis_count,
                       [qc EXCEPT !.mo_spec = LogNewOrbitals(orb_sym, basis_count)], l2)
          ELSE LogStep(sec_flag, basis_count, qc, l2)

\* 'E('
LogEnergy ==
  /\ LogExtract
  /\ flines[il].k = "energy"
  /\ LogStep(sec_flag, basis_count, [qc EXCEPT !.etot = flines[il].v[1]], loc)

\* a line with none of the keywords of the second loop, in section s
LogPlain(s) ==
  /\ LogExtract
  /\ flines[il].k \notin {"basis", "aohdr", "symhdr", "mohdr", "energy"}
  /\ ~(flines[il].k = "orient" /\ flines[il].s = loc.orientation)
  /\ sec_flag = s

\* outside all sections
LogOtherLine ==
  /\ LogPlain("None")
  /\ LogStep(sec_flag, basis_count, qc, loc)

\* geometry section
LogGeoLine ==
  /\ LogPlain("geo_info")
  /\ LET line == flines[il]
     IN IF loc.skip # 0 THEN LogStep(sec_flag, basis_count, qc, [loc EXCEPT !.skip = @ - 1])
        ELSE IF line.k # "atom" \/ il + 1 > Len(flines) THEN Fail("IndexError")
        ELSE LogStep(IF flines[il + 1].k = "dash" THEN "None" ELSE sec_flag, basis_count,
                     [qc EXCEPT !.geo_info = Append(@, <<line.v[2], line.v[1], line.v[2]>>),
                                !.geo_spec = Append(@, [angstrom |-> line.v[3], to_bohr |-> TRUE])],
                     loc)

\* the shells a line 'TYPE pnum scale 0.0' opens, and their basis functions
LogNewShells(at_num, chars, pnum) ==
  [c \in 1..Len(chars) |->
     [atom |-> at_num, type |-> chars[c], pnum |-> pnum, coeffs |-> [r \in 1..pnum |-> <<0, 0>>]]]
LogShellSize(chars) == SumSeq([c \in 1..Len(chars) |-> l_deg(lquant(chars[c]))])

\* row ao_num of the coefficients of the last len(ao_type) shells
LogSetPrimitive(ao_spec, n, ao_num, v) ==
  [j \in 1..Len(ao_spec) |->
     IF j > Len(ao_spec) - n
       THEN [ao_spec[j] EXCEPT !.coeffs[ao_num + 1] = <<v[1], v[1 + (j - (Len(ao_spec) - n))]>>]
       ELSE ao_spec[j]]

\* basis-set section
LogAoLine ==
  /\ LogPlain("ao_info")
  /\ LET line == flines[il]
         n    == Len(loc.ao_type)
     IN IF line.k = "stars"
          THEN IF il + 1 > Len(flines) THEN Fail("IndexError")
               ELSE LogStep(IF flines[il + 1].k = "blank" THEN "None" ELSE sec_flag,
                            basis_count, qc, [loc EXCEPT !.bNew = TRUE])
        ELSE IF loc.bNew
          THEN IF line.k # "center" THEN Fail("ValueError")
               ELSE LogStep(sec_flag, basis_count, qc,
                            [loc EXCEPT !.bNew = FALSE, !.at_num = line.v[1] - 1, !.ao_num = 0])
        ELSE IF line.k = "shell"
          THEN LogStep(sec_flag, basis_count + LogShellSize(LogTypeChars(line.s)),
                       [qc EXCEPT !.ao_spec =
                          @ \o LogNewShells(loc.at_num, LogTypeChars(line.s), line.v[1])],
                       [loc EXCEPT !.ao_num = 0, !.ao_type = LogTypeChars(line.s)])
        ELSE IF line.k # "prim" THEN Fail("ValueError")
        ELSE IF \/ Len(qc.ao_spec) < n \/ Len(line.v) < 1 + n
                \/ \E j \in 1..Len(qc.ao_spec) :
                     j > Len(qc.ao_spec) - n /\ loc.ao_num + 1 > qc.ao_spec[j].pnum
          THEN Fail("IndexError")
        ELSE LogStep(sec_flag, basis_count,
                     [qc EXCEPT !.ao_spec = LogSetPrimitive(@, n, loc.ao_num, line.v)],
                     [loc EXCEPT !.ao_num = @ + 1])

\* orbital-symmetry section
LogSymLine ==
  /\ LogPlain("mo_sym")
  /\ LET line == flines[il]
         add  == IF line.s = "Alpha" THEN "(a)" ELSE IF line.s = "Beta" THEN "(b)" ELSE loc.add
     IN IF line.k = "state" THEN LogStep("None", basis_count, qc, loc)
        ELSE LogStep(sec_flag, basis_count, qc,
                     [loc EXCEPT !.add = add,
                                 !.orb_sym = @ \o [i \in 1..Len(line.v) |-> <<line.v[i], add>>]])

\* the orbitals index[i] of mo_spec, each changed by f(orbital, i)
OnIndex(mo_spec, index, f(_, _)) ==
  [j \in 1..Len(mo_spec) |->
     IF \E i \in 1..Len(index) : index[i] + 1 = j
       THEN f(mo_spec[j], CHOOSE i \in 1..Len(index) : index[i] + 1 = j)
       ELSE mo_spec[j]]

\* orbital section: the first 21 columns are info, the rest is coeffs
LogMoLine ==
  /\ LogPlain("mo_info")
  /\ LET line   == flines[il]
         index  == loc.index
         coeffs == IF line.k = "mocoef" THEN Tail(line.v) ELSE line.v
         factor == IF InAlphaBeta(loc.mo_type) THEN 1 ELSE 2
         NoOrbital == \E i \in 1..Len(index) : index[i] + 1 > Len(qc.mo_spec) \/ i > Len(coeffs)
         SetOcc(o, i)    == [o EXCEPT !.occ_num = coeffs[i] * OccUnit * factor]
         SetEigen(o, i)  == IF loc.mo_type = "Natural" THEN [o EXCEPT !.occ_num = coeffs[i]]
                            ELSE [o EXCEPT !.energy = coeffs[i]]
         SetCoeff(o, i)  == [o EXCEPT !.coeffs[line.v[1]] = coeffs[i]]
         last   == index[Len(index)] + 1
     IN IF line.k \in {"moidx", "moocc", "blank"}
          THEN IF loc.bNew
                 THEN LogStep(sec_flag, basis_count, qc,
                              [loc EXCEPT !.index = [i \in 1..Len(coeffs) |-> loc.offset + i - 1],
                                          !.bNew = FALSE])
               ELSE IF NoOrbital THEN Fail("IndexError")
               ELSE LogStep(sec_flag, basis_count,
                            [qc EXCEPT !.mo_spec = OnIndex(@, index, SetOcc)], loc)
        ELSE IF line.k = "moeig"
          THEN IF NoOrbital THEN Fail("IndexError")
               ELSE LogStep(sec_flag, basis_count,
                            [qc EXCEPT !.mo_spec = OnIndex(@, index, SetEigen)], loc)
        ELSE IF line.k # "mocoef" THEN Fail("ValueError")
        ELSE IF NoOrbital \/ (index # <<>> /\ line.v[1] > Len(qc.mo_spec[index[1] + 1].coeffs))
          THEN Fail("IndexError")
        ELSE IF line.v[1] # basis_count
          THEN LogStep(sec_flag, basis_count,
                       [qc EXCEPT !.mo_spec = OnIndex(@, index, SetCoeff)], loc)
        ELSE IF index = <<>> THEN Fail("IndexError")
        ELSE IF last = Len(loc.orb_sym)
          THEN LogStep("None", basis_count, [qc EXCEPT !.mo_spec = OnIndex(@, index, SetCoeff)],
                       [loc EXCEPT !.bNew = TRUE, !.offset = last, !.orb_sym = <<>>])
        ELSE LogStep(sec_flag, basis_count, [qc EXCEPT !.mo_spec = OnIndex(@, index, SetCoeff)],
                     [loc EXCEPT !.bNew = TRUE, !.offset = last])

\* the end of the file ends the second loop
LogEOF ==
  /\ parser = "log" /\ pc = "extract" /\ il > Len(flines)
  /\ LogGoto("filter", loc)

\* the loop over mo_range keeping the orbitals at the threshold as well
RECURSIVE OccupiedOrAtThreshold(_)
OccupiedOrAtThreshold(mo_range) ==
  IF mo_range = <<>> THEN <<>>
  ELSE (IF Head(mo_range).occ_num >= OccThreshold THEN <<Head(mo_range)>> ELSE <<>>)
       \o OccupiedOrAtThreshold(Tail(mo_range))

\* 'Are all MOs requested for the calculation?': the loop over mo_range
RECURSIVE OccupiedOnly(_)
OccupiedOnly(mo_range) ==
  IF mo_range = <<>> THEN <<>>
  ELSE (IF Head(mo_range).occ_num > OccThreshold THEN <<Head(mo_range)>> ELSE <<>>)
       \o OccupiedOnly(Tail(mo_range))

\* the final filter and the return
LogFilter ==
  /\ parser = "log" /\ pc = "filter"
  /\ IF all_mo
       THEN /\ pc' = "done"
            /\ UNCHANGED <<parser, err, all_mo, il, flines, sec_flag, basis_count, qc, loc, lim>>
     ELSE IF \E i \in 1..Len(qc.mo_spec) : qc.mo_spec[i].occ_num = NoKey THEN Fail("KeyError")
     ELSE /\ pc' = "done"
          /\ qc' = [qc EXCEPT !.mo_spec = OccupiedOnly(@)]
          /\ UNCHANGED <<parser, err, all_mo, il, flines, sec_flag, basis_count, loc, lim>>

NextLog ==
  \/ LogCensusOrientation \/ LogCensusBasis \/ LogCensusAO \/ LogCensusState \/ LogCensusMO
  \/ LogCensusOther \/ LogCensusEnd
  \/ LogSelectGeo \/ LogSelectAO \/ LogSelectMO
  \/ LogOrientation \/ LogBasis \/ LogAOHeader \/ LogSymHeader \/ LogMOHeader \/ LogEnergy
  \/ LogOtherLine \/ LogGeoLine \/ LogAoLine \/ LogSymLine \/ LogMoLine
  \/ LogEOF \/ LogFilter

SpecLog == InitLog /\ [][NextLog]_vars

(***************************************************************************)
(* Claims about read_gaussian_log                                          *)
(***************************************************************************)
\* what the file holds, read off its lines
OrientLines(fl, o) == {i \in 1..Len(fl) : fl[i].k = "orient" /\ fl[i].s = o}
NumOrient(fl, o) == Cardinality(OrientLines(fl, o))
LastOrient(fl, o) == CHOOSE i \in OrientLines(fl, o) : \A j \in OrientLines(fl, o) : j <= i
\* the atom rows of the geometry section that opens at line h
AtomRows(fl, h) ==
  {p \in (h + 1)..Len(fl) : fl[p].k = "atom" /\ \A q \in (h + 1)..p : fl[q].k # "orient"}
GeoSpecOf(fl, h) ==
  LET rows == SubSeqAt(fl, AtomRows(fl, h))
  IN [i \in 1..Len(rows) |-> [angstrom |-> rows[i].v[3], to_bohr |-> TRUE]]
OtherOrientation(o) == IF o = "input" THEN "standard" ELSE "input"

\* C7: with n >= 1 geometry sections of the requested orientation among any
\* number of sections of the other one, i_geo = -1 returns the geometry of
\* the last section of the requested orientation
C7_LastGeometry ==
  (/\ parser = "log" /\ Returned
   /\ loc.args.i_geo = -1
   /\ NumOrient(flines, loc.args.orientation) >= 1) =>
    /\ qc.geo_spec = GeoSpecOf(flines, LastOrient(flines, loc.args.orientation))
    /\ Len(qc.geo_info) = Len(qc.geo_spec)
    /\ qc.geo_spec # <<>>

\* three standard sections and then one input section, standard requested:
\* the third geometry is returned
C7_Witness ==
  /\ parser = "log" /\ Returned
  /\ loc.args.i_geo = -1 /\ loc.args.orientation = "standard"
  /\ NumOrient(flines, "standard") = 3 /\ NumOrient(flines, "input") = 1
  /\ LastOrient(flines, "standard") < LastOrient(flines, "input")
  /\ qc.geo_spec = <<[angstrom |-> 3, to_bohr |-> TRUE]>>

\* the step that selects the geometry section when the requested orientation
\* does not occur in the file
NoRequestedOrientation ==
  /\ parser = "log" /\ pc = "sel_geo"
  /\ NumOrient(flines, loc.args.orientation) = 0

\* C8 as stated: with no section of the requested orientation the selection
\* is retried with the other orientation, and the parse fails with the
\* no-geometry error only if that one has no section either
C8_FallbackAlternate ==
  [][(NoRequestedOrientation /\ pc' # pc) =>
       LET alt == OtherOrientation(loc.args.orientation)
       IN /\ (err' = NoGeometry) <=> (NumOrient(flines, alt) = 0)
          /\ (pc' = "sel_ao") => (loc'.orientation = alt)]_vars

\* C8 as the code has it: with no section of the requested orientation the
\* selection is retried with the input orientation, whichever was requested,
\* and the parse fails with the no-geometry error exactly if the file has no
\* input-orientation section
C8_FallbackInput ==
  [][(NoRequestedOrientation /\ pc' # pc) =>
       /\ (err' = NoGeometry) <=> (NumOrient(flines, "input") = 0)
       /\ (pc' = "sel_ao") => (loc'.orientation = "input")]_vars

\* standard requested, only input sections in the file: the record holds the
\* geometry of an input section
C8_Witness ==
  /\ parser = "log" /\ Returned
  /\ loc.args.orientation = "standard"
  /\ NumOrient(flines, "standard") = 0 /\ NumOrient(flines, "input") >= 1
  /\ loc.orientation = "input"
  /\ qc.geo_spec # <<>>

\* the census entry that the orbital block opening at line i belongs to
CensusIdx(fl, i) == Cardinality({j \in 1..i : fl[j].k = "mohdr" /\ fl[j].s # "Beta"}) - 1

\* C9: the second loop enters the orbital extraction at the opening line of
\* the block the census entry i_mo denotes, and at no other block
C9_EntersSelectedBlock ==
  (parser = "log" /\ pc = "extract" /\ il <= Len(flines) /\ flines[il].k = "mohdr") =>
    ((loc.i_mo = loc.c_mo) <=> (flines[il].s # "Beta" /\ CensusIdx(flines, il) = loc.i_mo))

\* the second loop is at the opening line of an occurrence it does not select
NonSelectedHeader ==
  /\ parser = "log" /\ pc = "extract" /\ il <= Len(flines)
  /\ \/ flines[il].k = "orient" /\ flines[il].s = loc.orientation /\ loc.i_geo # loc.c_geo
     \/ flines[il].k = "aohdr" /\ loc.i_ao # loc.c_ao
     \/ flines[il].k = "mohdr" /\ loc.i_mo # loc.c_mo

\* C10: the opening line of a non-selected occurrence leaves the section
\* flag, the data extracted so far and the basis-function count unchanged
C10_NonSelectedHeaderFrame ==
  [][(NonSelectedHeader /\ il' = il + 1) =>
       (sec_flag' = sec_flag /\ qc' = qc /\ basis_count' = basis_count)]_vars

(***************************************************************************)
(* read_molden: the lines of a molden file                                 *)
(***************************************************************************)
MaxMolecules == 2            \* molden files written one after the other into one file

\* '[Atoms] Angs' or '[Atoms] AU' and one row 'name number charge x y z' for
\* each atom
MoldenAtoms(unit, natoms) ==
  <<LogLine("atoms", unit, <<>>)>> \o [i \in 1..natoms |-> LogLine("atom", "H", <<i, 1, i>>)]

\* '[GTO]', then for each atom its number, its shells 'type pnum 1.00' with
\* pnum rows 'exponent coefficient', and an empty line
MoldenGto(atoms) ==
  <<LogLine("gto", "", <<>>)>>
  \o Flatten([a \in 1..Len(atoms) |->
                <<LogLine("center", "", <<a, 0>>)>>
                \o Flatten([j \in 1..Len(atoms[a]) |->
                              <<LogLine("shell", atoms[a][j], <<MaxPrim>>)>>
                              \o [r \in 1..MaxPrim |-> LogLine("prim", "", <<r, Contraction1>>)]])
                \o <<LogLine("blank", "", <<>>)>>])

\* the basis functions of such a section, for the shell types s and p
MoldenSize(atoms) ==
  SumSeq([a \in 1..Len(atoms) |->
            SumSeq([j \in 1..Len(atoms[a]) |-> l_deg(lquant(atoms[a][j]))])])

\* '[MO]', then for each orbital its 'Sym=', 'Ene=' and 'Occup=' rows, as far
\* as the file gives them, and bc rows 'index coefficient'; the energy of the
\* n-th orbital is written as n
MoldenMo(orbs, bc) ==
  <<LogLine("mo", "", <<>>)>>
  \o Flatten([n \in 1..Len(orbs) |->
                (IF orbs[n].sym # <<>>
                   THEN <<[LogLine("moinfo", "Sym", <<>>) EXCEPT !.w = orbs[n].sym]>> ELSE <<>>)
                \o <<LogLine("moinfo", "Ene", <<n>>), LogLine("moinfo", "Spin", <<0>>)>>
                \o (IF orbs[n].occ # NoKey THEN <<LogLine("moinfo", "Occup", <<orbs[n].occ>>)>>
                    ELSE <<>>)
                \o [r \in 1..bc |-> LogLine("mocoef", "", <<r, n>>)]])

MoldenMarker == <<LogLine("marker", "", <<>>)>>
MoldenOneS == << <<"s">> >>
DoublyOccupied == [sym |-> <<>>, occ |-> 2 * OccUnit]

\* one molden file with or without each of its parts
MoldenMolecule(m, a, g, o) ==
  (IF m THEN MoldenMarker ELSE <<>>)
  \o (IF a THEN MoldenAtoms("AU", 1) ELSE <<>>)
  \o (IF g THEN MoldenGto(MoldenOneS) ELSE <<>>)
  \o (IF o THEN MoldenMo(<<DoublyOccupied>>, 1) ELSE <<>>)
MoldenMolecules == {MoldenMolecule(m, a, g, o) : m, a, g, o \in BOOLEAN}

\* a complete file of one atom, one s shell and one orbital
MoldenFull == MoldenMolecule(TRUE, TRUE, TRUE, TRUE)

\* a file of two atoms with one s shell each and two orbitals; in the files
\* made from it the value token of one coefficient row is not a number
MoldenTwoByTwo ==
  MoldenMarker \o MoldenAtoms("AU", 2) \o MoldenGto(LogAtoms2)
  \o MoldenMo(<<DoublyOccupied, DoublyOccupied>>, 2)

\* the value of a row 'index value' that stands behind an unread section header
AfterSection == 5
\* 'Sym=' values, character by character
MoldenSyms == {<<"2">>, <<"1", ".", "1">>, <<"1", "a", "1">>, <<"2", "a", "1">>, <<"a">>}
\* 'Occup=' values, NoKey for an orbital without such a row
MoldenOccs == {NoKey, 0, OccThreshold, 2 * OccUnit}

\* the families of molden files: one or more files in a row, the basis sets,
\* the orbital lists, and the lines that stand outside the sections
MoldenFamilies ==
  { Flatten(ms) : ms \in UNION {[1..n -> MoldenMolecules] : n \in 1..MaxMolecules} }
  \cup
  { MoldenMarker \o <<LogLine("energy", "", <<1>>)>> \o MoldenAtoms(unit, natoms)
    \o MoldenGto([a \in 1..natoms |-> shells])
    \o MoldenMo(<<DoublyOccupied>>, MoldenSize([a \in 1..natoms |-> shells])) :
      unit \in {"Angs", "AU"}, natoms \in 1..MaxAtoms,
      shells \in SeqsUpTo({"s", "p"}, MaxShells) \ {<<>>} }
  \cup
  { MoldenMarker \o MoldenAtoms("AU", 1) \o MoldenGto(MoldenOneS)
    \o MoldenMo([n \in 1..Len(occs) |-> [sym |-> <<>>, occ |-> occs[n]]], 1) \o tail :
      occs \in SeqsUpTo(MoldenOccs, MaxMO),
      tail \in {<<>>, <<LogLine("bracket", "", <<>>), LogLine("text", "", <<>>)>>,
                 <<LogLine("bracket", "", <<>>), LogLine("mocoef", "", <<1, AfterSection>>),
                   LogLine("moinfo", "Occup", <<0>>)>>} }
  \cup
  { MoldenMarker \o MoldenAtoms("AU", 1) \o MoldenGto(MoldenOneS)
    \o MoldenMo(<<[sym |-> sym, occ |-> 2 * OccUnit]>>, 1) : sym \in MoldenSyms }
  \cup
  { MoldenMarker \o <<LogLine("sto", "", <<>>)>>,
    MoldenMarker \o MoldenAtoms("AU", 1) \o MoldenGto(<< <<"sp">> >>) }
  \cup
  { SubSeq(MoldenFull, 1, i) \o <<LogLine("sto", "", <<>>)>>
    \o SubSeq(MoldenFull, i + 1, Len(MoldenFull)) : i \in 1..Len(MoldenFull) }
  \cup
  { [MoldenTwoByTwo EXCEPT ![i].s = "bad"] :
      i \in {j \in 1..Len(MoldenTwoByTwo) : MoldenTwoByTwo[j].k = "mocoef"} }

\* the locals of read_molden; defd holds the names that a line has bound
MoldenLocals ==
  [aa_to_au |-> FALSE, bNew |-> FALSE, at_num |-> 0, ao_num |-> 0, ao_type |-> "", pnum |-> 0,
   defd |-> {}, displayed |-> <<>>]

InitMolden ==
  /\ parser = "molden"
  /\ pc = "check"
  /\ err = "none"
  /\ all_mo \in BOOLEAN
  /\ il = 1
  /\ flines \in MoldenFamilies
  /\ sec_flag = "None"
  /\ basis_count = 0
  /\ qc = QCinfo
  /\ loc = MoldenLocals
  /\ lim = <<>>

\* 'Is this really a molden file?': composing the message for display fails
\* before the IOError is raised, '%' binds to the second string only
MoldenCheck ==
  /\ parser = "molden" /\ pc = "check"
  /\ IF \A i \in 1..Len(flines) : flines[i].k # "marker" THEN Fail("TypeError")
     ELSE /\ pc' = "read"
          /\ basis_count' = 0
          /\ UNCHANGED <<parser, err, all_mo, il, flines, sec_flag, qc, loc, lim>>

MoldenRead(k) == parser = "molden" /\ pc = "read" /\ il <= Len(flines) /\ flines[il].k = k

\* one pass through the body of the loop
MoldenStep(sf, bc, q, l) ==
  /\ il' = il + 1
  /\ sec_flag' = sf
  /\ basis_count' = bc
  /\ qc' = q
  /\ loc' = l
  /\ UNCHANGED <<parser, pc, err, all_mo, flines, lim>>

\* '[Molden Format]'
MoldenFormat ==
  /\ MoldenRead("marker")
  /\ MoldenStep("False", basis_count, QCinfo, [loc EXCEPT !.defd = @ \cup {"qc", "sec_flag"}])

\* '_ENERGY='
MoldenEnergy ==
  /\ MoldenRead("energy")
  /\ IF "qc" \notin loc.defd THEN Fail("NameError")
     ELSE MoldenStep(sec_flag, basis_count, [qc EXCEPT !.etot = flines[il].v[1]], loc)

\* '[Atoms]' with the unit of the line not looked at
MoldenAtomsHdrNoUnit ==
  /\ MoldenRead("atoms")
  /\ MoldenStep("geo_info", basis_count, qc,
                [loc EXCEPT !.aa_to_au = FALSE, !.defd = @ \cup {"sec_flag", "aa_to_au"}])

\* '[Atoms]'
MoldenAtomsHdr ==
  /\ MoldenRead("atoms")
  /\ MoldenStep("geo_info", basis_count, qc,
                [loc EXCEPT !.aa_to_au = (flines[il].s = "Angs"),
                            !.defd = @ \cup {"sec_flag", "aa_to_au"}])

\* '[GTO]'
MoldenGtoHdr ==
  /\ MoldenRead("gto")
  /\ MoldenStep("ao_info", basis_count, qc,
                [loc EXCEPT !.bNew = TRUE, !.defd = @ \cup {"sec_flag", "bNew"}])

\* '[MO]'
MoldenMoHdr ==
  /\ MoldenRead("mo")
  /\ MoldenStep("mo_info", basis_count, qc,
                [loc EXCEPT !.bNew = TRUE, !.defd = @ \cup {"sec_flag", "bNew"}])

\* '[STO]' read as a line without keyword outside the sections
MoldenStoIgnored ==
  /\ MoldenRead("sto")
  /\ MoldenStep(sec_flag, basis_count, qc, loc)

\* '[STO]'
MoldenSto ==
  /\ MoldenRead("sto")
  /\ pc' = "failed"
  /\ err' = "IOError: Not a valid input file"
  /\ loc' = [loc EXCEPT !.displayed = Append(@, "orbkit does not work for STOs!")]
  /\ UNCHANGED <<parser, all_mo, il, flines, sec_flag, basis_count, qc, lim>>

\* a line with none of the keywords, in section s
MoldenPlain(s) ==
  /\ parser = "molden" /\ pc = "read" /\ il <= Len(flines)
  /\ flines[il].k \notin {"marker", "energy", "atoms", "gto", "mo", "sto"}
  /\ sec_flag = s

\* outside all sections, or before any line has set sec_flag
MoldenOtherLine ==
  /\ MoldenPlain("None") \/ MoldenPlain("False")
  /\ IF "sec_flag" \notin loc.defd THEN Fail("NameError")
     ELSE MoldenStep(sec_flag, basis_count, qc, loc)

\* geometry section: thisline[0:3] and the converted thisline[3:]
MoldenGeoLine ==
  /\ MoldenPlain("geo_info")
  /\ LET line == flines[il]
     IN IF "qc" \notin loc.defd THEN Fail("NameError")
        ELSE IF line.k = "atom"
          THEN MoldenStep(sec_flag, basis_count,
                 [qc EXCEPT !.geo_info = Append(@, <<line.s, line.v[1], line.v[2]>>),
                            !.geo_spec = Append(@, [x |-> line.v[3], to_bohr |-> loc.aa_to_au])],
                 loc)
        ELSE MoldenStep(sec_flag, basis_count,
                 [qc EXCEPT !.geo_info = Append(@, <<>>), !.geo_spec = Append(@, <<>>)], loc)

\* orbkit.core: the keys of the dictionary lquant
LquantKeys == {"s", "p", "d", "f", "g"}

\* basis-set section
MoldenAoLine ==
  /\ MoldenPlain("ao_info")
  /\ LET line == flines[il]
         last == Len(qc.ao_spec)
     IN IF line.k = "blank" THEN MoldenStep(sec_flag, basis_count, qc, [loc EXCEPT !.bNew = TRUE])
        ELSE IF loc.bNew
          THEN IF line.k # "center" THEN Fail("ValueError")
               ELSE MoldenStep(sec_flag, basis_count, qc,
                               [loc EXCEPT !.bNew = FALSE, !.at_num = line.v[1] - 1, !.ao_num = 0])
        ELSE IF line.k = "shell"
          THEN IF line.s \notin LquantKeys THEN Fail("KeyError")
               ELSE IF "qc" \notin loc.defd THEN Fail("NameError")
               ELSE MoldenStep(sec_flag, basis_count + l_deg(lquant(line.s)),
                      [qc EXCEPT !.ao_spec = Append(@,
                         [atom |-> loc.at_num, type |-> line.s, pnum |-> line.v[1],
                          coeffs |-> [r \in 1..line.v[1] |-> <<0, 0>>]])],
                      [loc EXCEPT !.ao_num = 0, !.ao_type = line.s, !.pnum = line.v[1]])
        ELSE IF line.k # "prim" THEN Fail("ValueError")
        ELSE IF "qc" \notin loc.defd THEN Fail("NameError")
        ELSE IF last = 0 \/ loc.ao_num + 1 > qc.ao_spec[last].pnum THEN Fail("IndexError")
        ELSE MoldenStep(sec_flag, basis_count,
               [qc EXCEPT !.ao_spec[last].coeffs[loc.ao_num + 1] = line.v],
               [loc EXCEPT !.ao_num = @ + 1])

Digits == {"0", "1", "2", "3", "4", "5", "6", "7", "8", "9"}
\* re.search(r'\d+', chars).group(): the first run of digits, <<>> if none
RECURSIVE DigitRun(_)
DigitRun(chars) ==
  IF chars = <<>> \/ Head(chars) \notin Digits THEN <<>>
  ELSE <<Head(chars)>> \o DigitRun(Tail(chars))
RECURSIVE FirstDigits(_)
FirstDigits(chars) ==
  IF chars = <<>> THEN <<>>
  ELSE IF Head(chars) \in Digits THEN DigitRun(chars)
  ELSE FirstDigits(Tail(chars))
\* chars.replace(a, b)
RECURSIVE Replace(_, _, _)
Replace(chars, a, b) ==
  IF Len(chars) < Len(a) THEN chars
  ELSE IF SubSeq(chars, 1, Len(a)) = a
    THEN b \o Replace(SubSeq(chars, Len(a) + 1, Len(chars)), a, b)
  ELSE <<Head(chars)>> \o Replace(Tail(chars), a, b)

\* a row 'Sym=chars' stored as the integer in the value and '.1'
MoldenSymInteger(chars) ==
  LET a == FirstDigits(chars)
  IN IF \E i \in 1..Len(chars) : chars[i] = "." THEN [err |-> "none", sym |-> chars]
     ELSE IF a = <<>> THEN [err |-> "AttributeError", sym |-> chars]
     ELSE [err |-> "none", sym |-> a \o <<".", "1">>]

\* the value stored for a row 'Sym=chars'
MoldenSym(chars) ==
  LET a == FirstDigits(chars)
  IN IF \E i \in 1..Len(chars) : chars[i] = "." THEN [err |-> "none", sym |-> chars]
     ELSE IF a = <<>> THEN [err |-> "AttributeError", sym |-> chars]
     ELSE IF a = chars THEN [err |-> "none", sym |-> a \o <<".", "1">>]
     ELSE [err |-> "none", sym |-> Replace(chars, a, a \o <<".">>)]

\* the orbital a first row with '=' opens
MoldenNewOrbital(n, bc) ==
  [coeffs |-> [r \in 1..bc |-> 0], sym |-> <<ToString(n), ".", "1">>,
   energy |-> NoKey, occ_num |-> NoKey]

\* a coefficient row whose value is not a number, with the ValueError of
\* float() left uncaught
MoldenBadCoefficientRaises == Fail("ValueError")

\* a coefficient row whose value is not a number: float() raises before the
\* assignment, the except branch displays a message
MoldenBadCoefficient ==
  MoldenStep(sec_flag, basis_count, qc,
             [loc EXCEPT !.bNew = TRUE,
                         !.displayed = Append(@, "Error in coefficient! Setting this coefficient to zero...")])

\* a line with '[' that leaves the orbital section open
MoldenSectionGoesOn == MoldenStep(sec_flag, basis_count, qc, loc)

\* orbital section: a line with '[' and without '=' is the 'start of another
\* section that is not (yet) read'
MoldenSectionEnd == MoldenStep("None", basis_count, qc, loc)

\* orbital section
MoldenMoLine ==
  /\ MoldenPlain("mo_info")
  /\ LET line    == flines[il]
         mo_spec == IF line.k = "moinfo" /\ loc.bNew
                      THEN Append(qc.mo_spec, MoldenNewOrbital(Len(qc.mo_spec) + 1, basis_count))
                      ELSE qc.mo_spec
         last    == Len(mo_spec)
         sym     == MoldenSym(line.w)
     IN IF "qc" \notin loc.defd THEN Fail("NameError")
        ELSE IF line.k = "moinfo"
          THEN IF line.s \notin {"Sym", "Ene", "Occup"}
                 THEN MoldenStep(sec_flag, basis_count, [qc EXCEPT !.mo_spec = mo_spec],
                                 [loc EXCEPT !.bNew = FALSE])
               ELSE IF line.s = "Sym" /\ sym.err # "none" THEN Fail(sym.err)
               ELSE IF last = 0 THEN Fail("IndexError")
               ELSE MoldenStep(sec_flag, basis_count,
                      [qc EXCEPT !.mo_spec =
                         CASE line.s = "Sym" -> [mo_spec EXCEPT ![last].sym = sym.sym]
                           [] line.s = "Ene" -> [mo_spec EXCEPT ![last].energy = line.v[1]]
                           [] OTHER          -> [mo_spec EXCEPT ![last].occ_num = line.v[1]]],
                      [loc EXCEPT !.bNew = FALSE])
        ELSE IF line.k = "bracket" THEN MoldenSectionEnd
        ELSE IF line.k # "mocoef" THEN Fail("ValueError")
        ELSE IF line.s = "bad"
          THEN IF last = 0 THEN Fail("IndexError") ELSE MoldenBadCoefficient
        ELSE IF last = 0 \/ line.v[1] > Len(mo_spec[last].coeffs) THEN Fail("IndexError")
        ELSE MoldenStep(sec_flag, basis_count,
               [qc EXCEPT !.mo_spec[last].coeffs[line.v[1]] = line.v[2]],
               [loc EXCEPT !.bNew = TRUE])

\* the end of the file ends the loop
MoldenEOF ==
  /\ parser = "molden" /\ pc = "read" /\ il > Len(flines)
  /\ pc' = "filter"
  /\ UNCHANGED <<parser, err, all_mo, il, flines, sec_flag, basis_count, qc, loc, lim>>

\* the final filter and the return
MoldenFilter ==
  /\ parser = "molden" /\ pc = "filter"
  /\ IF all_mo
       THEN /\ pc' = "done"
            /\ UNCHANGED <<parser, err, all_mo, il, flines, sec_flag, basis_count, qc, loc, lim>>
     ELSE IF \E i \in 1..Len(qc.mo_spec) : qc.mo_spec[i].occ_num = NoKey THEN Fail("KeyError")
     ELSE /\ pc' = "done"
          /\ qc' = [qc EXCEPT !.mo_spec = OccupiedOnly(@)]
          /\ UNCHANGED <<parser, err, all_mo, il, flines, sec_flag, basis_count, loc, lim>>

NextMolden ==
  \/ MoldenCheck \/ MoldenFormat \/ MoldenEnergy \/ MoldenAtomsHdr \/ MoldenGtoHdr
  \/ MoldenMoHdr \/ MoldenSto \/ MoldenOtherLine \/ MoldenGeoLine \/ MoldenAoLine
  \/ MoldenMoLine \/ MoldenEOF \/ MoldenFilter

SpecMolden == InitMolden /\ [][NextMolden]_vars

\* read_molden and read_gaussian_log side by side: the readers that end in
\* the final filter
SpecMoldenLog == (InitMolden \/ InitLog) /\ [][NextMolden \/ NextLog]_vars

(***************************************************************************)
(* Claims about the returned orbitals                                      *)
(***************************************************************************)
\* the sum of the degeneracies of the shells of ao_spec
BasisSize(ao_spec) == SumSeq([j \in 1..Len(ao_spec) |-> l_deg(lquant(ao_spec[j].type))])

\* C1: in a returned record the coefficient vector of every orbital is as
\* long as the sum of the degeneracies of the shells of ao_spec
C1_CoeffLength ==
  Returned =>
    \A i \in 1..Len(qc.mo_spec) : Len(qc.mo_spec[i].coeffs) = BasisSize(qc.ao_spec)

Occupied(o) == o.occ_num > OccThreshold
\* the 'Ene=' rows of the molden file that follow its last '[Molden Format]'
EneRows(fl) ==
  {i \in 1..Len(fl) : /\ fl[i].k = "moinfo" /\ fl[i].s = "Ene"
                      /\ \A j \in i..Len(fl) : fl[j].k # "marker"}
Energies(mo_spec) == [i \in 1..Len(mo_spec) |-> mo_spec[i].energy]
FileEnergies(fl) ==
  LET rows == SubSeqAt(fl, EneRows(fl)) IN [i \in 1..Len(rows) |-> rows[i].v[1]]

\* C3: the final filter returns, with all_mo = False, exactly the parsed
\* orbitals of occupation above 1e-7, in their order and unchanged, and with
\* all_mo = True the full parsed list, as many and in the order of the file
\* section; nothing else of the record changes
C3_FilterSubsequence ==
  [][(pc = "filter" /\ pc' = "done") =>
       /\ qc'.mo_spec = IF all_mo THEN qc.mo_spec ELSE SelectSeq(qc.mo_spec, Occupied)
       /\ [qc' EXCEPT !.mo_spec = <<>>] = [qc EXCEPT !.mo_spec = <<>>]
       /\ (all_mo /\ parser = "molden") => (Energies(qc'.mo_spec) = FileEnergies(flines))]_vars

\* a molden file of three orbitals, the second one empty: the first and the
\* third are returned, in this order
C3_Witness ==
  /\ parser = "molden" /\ Returned /\ ~all_mo
  /\ FileEnergies(flines) = <<1, 2, 3>>
  /\ Energies(qc.mo_spec) = <<1, 3>>

(***************************************************************************)
(* Claims about the errors of read_gaussian_log                            *)
(***************************************************************************)
NoAoSection == "IOError: Write GFINPUT in your GAUSSIAN route section"
NoMoSection == "IOError: Write IOP(6/7=3) in your GAUSSIAN route section"

\* C11: when the first loop has counted no 'AO basis set' line the call ends
\* with the IOError that names GFINPUT, and when it has counted no 'Orbital
\* Coefficients:' line with the IOError that names IOP(6/7=3); no record is
\* returned
C11_SectionNotFound ==
  [][/\ (parser = "log" /\ pc = "sel_ao" /\ loc.count.atomic_orbitals = 0) =>
          (pc' = "failed" /\ err' = NoAoSection)
     /\ (parser = "log" /\ pc = "sel_mo" /\ loc.count.molecular_orbitals = <<>>) =>
          (pc' = "failed" /\ err' = NoMoSection)]_vars

(***************************************************************************)
(* Claims about the errors of read_molden                                  *)
(***************************************************************************)
HasMarker(fl) == \E i \in 1..Len(fl) : fl[i].k = "marker"
InvalidMolden == "IOError: Not a valid input file"

\* C12: on a file without a '[Molden Format]' line the call ends, before the
\* loop has read a line, with the IOError 'Not a valid input file' that the
\* reader raises for invalid molden input; no record is returned
C12_NoMarkerInvalidFormat ==
  (parser = "molden" /\ ~HasMarker(flines) /\ pc # "check") =>
    (pc = "failed" /\ err = InvalidMolden /\ il = 1 /\ qc = QCinfo)

\* the file has a '[STO]' line after a '[Molden Format]' line
StoAfterMarker(fl) ==
  \E i, j \in 1..Len(fl) : i < j /\ fl[i].k = "marker" /\ fl[j].k = "sto"
FirstSto(fl) == CHOOSE j \in 1..Len(fl) : fl[j].k = "sto" /\ \A i \in 1..(j - 1) : fl[i].k # "sto"

\* C13: a file with a '[STO]' line after the '[Molden Format]' line returns no
\* record: the loop ends at the first such line with an IOError, in whatever
\* section it is
C13_StoFails ==
  (parser = "molden" /\ StoAfterMarker(flines)) =>
    /\ pc # "done" /\ pc # "filter"
    /\ il <= FirstSto(flines)
    /\ (pc = "failed" /\ il = FirstSto(flines)) => err = InvalidMolden

\* the '[STO]' line is met inside the orbital section, after an orbital was read
C13_Witness ==
  /\ parser = "molden" /\ StoAfterMarker(flines)
  /\ pc = "failed" /\ err = InvalidMolden
  /\ sec_flag = "mo_info" /\ qc.mo_spec # <<>>
  /\ flines[il].k = "sto"

\* C14: a '[Molden Format]' line resets the whole state of the loop: the
\* record, the section flag and the count of basis functions
C14_MarkerResetsAll ==
  [][(parser = "molden" /\ pc = "read" /\ il <= Len(flines) /\ flines[il].k = "marker"
      /\ il' = il + 1) =>
       (qc' = QCinfo /\ sec_flag' = "False" /\ basis_count' = 0)]_vars

\* the loop is at a coefficient row of the orbital section whose value token
\* is not a number
AtBadCoefficient ==
  /\ parser = "molden" /\ pc = "read" /\ il <= Len(flines)
  /\ flines[il].k = "mocoef" /\ flines[il].s = "bad"
  /\ sec_flag = "mo_info" /\ qc.mo_spec # <<>>

\* C15: a coefficient row whose value token is not a number does not end the
\* call: the loop goes on to the next line, the coefficient of that row is 0,
\* the record is otherwise as it was (the orbital keeps its length, its other
\* coefficients and its metadata) and one message is displayed
C15_BadCoefficientRecovered ==
  [][AtBadCoefficient =>
       LET last == Len(qc.mo_spec)
           idx  == flines[il].v[1]
       IN /\ pc' = "read" /\ err' = "none" /\ il' = il + 1
          /\ Len(qc'.mo_spec) = last
          /\ idx <= Len(qc.mo_spec[last].coeffs) => qc'.mo_spec[last].coeffs[idx] = 0
          /\ qc' = qc
          /\ Len(loc'.displayed) = Len(loc.displayed) + 1]_vars

\* the second coefficient of the first orbital was not a number: the record
\* is returned with both orbitals, the first one with 0 in that place
C15_Witness ==
  /\ parser = "molden" /\ Returned
  /\ \E i \in 1..Len(flines) : flines[i].k = "mocoef" /\ flines[i].s = "bad"
  /\ Len(qc.mo_spec) = 2
  /\ qc.mo_spec[1].coeffs = <<1, 0>>
  /\ qc.mo_spec[2].coeffs = <<2, 2>>
  /\ Len(loc.displayed) = 1

(***************************************************************************)
(* read_gaussian_fchk: the lines of a formatted checkpoint file            *)
(***************************************************************************)
MaxTok == 2                  \* data tokens of one line

\* the data lines of a record: its tokens, n to a line
RECURSIVE Chunk(_, _)
Chunk(toks, n) ==
  IF toks = <<>> THEN <<>>
  ELSE IF Len(toks) <= n THEN <<LogLine("data", "", toks)>>
  ELSE <<LogLine("data", "", SubSeq(toks, 1, n))>> \o Chunk(SubSeq(toks, n + 1, Len(toks)), n)

\* a record 'keyword  I|R  N=  count' and its data lines
FchkRecord(k, s, toks, n) == <<LogLine(k, s, <<Len(toks)>>)>> \o Chunk(toks, n)

\* a record the reader has no keyword for ('Nuclear charges', 'Total SCF
\* Density', ...): it stands between the records the reader reads
FchkOther(gaps) ==
  IF gaps THEN <<LogLine("other", "", <<1>>), LogLine("data", "", <<7>>)>> ELSE <<>>

UpTo(n) == [i \in 1..n |-> i]
\* the shell types of the model files: 0 is s, 1 is p
FchkSize(types) == SumSeq([j \in 1..Len(types) |-> l_deg(types[j])])

\* the geometry records of a file of natoms atoms
FchkGeometry(natoms, n, gaps) ==
  FchkRecord("atnum", "", [i \in 1..natoms |-> 1], n) \o FchkOther(gaps)
  \o FchkRecord("coords", "", UpTo(3 * natoms), n) \o FchkOther(gaps)
  \o FchkRecord("weights", "", [i \in 1..natoms |-> 1], n) \o FchkOther(gaps)

\* the basis-set records of a file: the shells with one primitive each, the
\* j-th shell on atom 1 + (j - 1) mod natoms
FchkBasis(types, natoms, n, gaps) ==
  FchkRecord("types", "", types, n)
  \o FchkRecord("pnum", "", [j \in 1..Len(types) |-> 1], n)
  \o FchkRecord("map", "", [j \in 1..Len(types) |-> 1 + ((j - 1) % natoms)], n)
  \o FchkRecord("exps", "", UpTo(Len(types)), n)
  \o FchkRecord("contr", "", [j \in 1..Len(types) |-> Contraction1], n) \o FchkOther(gaps)

\* the orbital records of a file of mo_num orbitals over bc basis functions,
\* for the spins given: all energies first, then all coefficients
FchkOrbitals(spins, mo_num, bc, n, after_energies, gaps) ==
  Flatten([i \in 1..Len(spins) |-> FchkRecord("eorb", spins[i], UpTo(mo_num), n)])
  \o FchkOther(after_energies)
  \o Flatten([i \in 1..Len(spins) |-> FchkRecord("mocoeffs", spins[i], UpTo(mo_num * bc), n)])
  \o FchkOther(gaps)

FchkElectrons(na, nb) == <<LogLine("nalpha", "", <<na>>), LogLine("nbeta", "", <<nb>>)>>
FchkTitle == <<LogLine("text", "", <<>>)>>
FchkTotalEnergy == <<LogLine("etot", "", <<1>>)>>

\* the records of the basis set, one primitive per shell, by their keyword
FchkAoRecord(k, types) ==
  CASE k = "types" -> FchkRecord(k, "", types, MaxTok)
    [] k = "exps"  -> FchkRecord(k, "", UpTo(Len(types)), MaxTok)
    [] k = "contr" -> FchkRecord(k, "", [j \in 1..Len(types) |-> Contraction1], MaxTok)
    [] OTHER       -> FchkRecord(k, "", [j \in 1..Len(types) |-> 1], MaxTok)
FchkAoKinds == {"types", "pnum", "map", "exps", "contr"}

\* the families of checkpoint files: the geometries, the basis sets, the
\* orbital lists with as many or fewer orbitals than basis functions, and the
\* basis-set records in every order
FchkFamilies ==
  { FchkTitle \o FchkElectrons(1, 1) \o FchkGeometry(natoms, n, gaps)
    \o FchkBasis(<<0>>, natoms, n, gaps) \o FchkTotalEnergy
    \o FchkOrbitals(<<"Alpha">>, 1, 1, n, FALSE, gaps) :
      natoms \in 1..MaxAtoms, n \in 1..MaxTok, gaps \in BOOLEAN }
  \cup
  { FchkTitle \o FchkElectrons(1, 1) \o FchkGeometry(natoms, MaxTok, FALSE)
    \o FchkBasis(types, natoms, MaxTok, gaps)
    \o FchkOrbitals(<<"Alpha">>, FchkSize(types), FchkSize(types), MaxTok, FALSE, gaps) :
      natoms \in 1..MaxAtoms, types \in SeqsUpTo({0, 1}, MaxShells) \ {<<>>}, gaps \in BOOLEAN }
  \cup
  { FchkElectrons(na, nb) \o FchkGeometry(1, MaxTok, FALSE)
    \o FchkBasis(<<0, 0>>, 1, MaxTok, FALSE)
    \o FchkOrbitals(spins, mo_num, 2, MaxTok, after, gaps) :
      na \in 0..MaxOcc, nb \in 0..MaxOcc, spins \in {<<"Alpha">>, <<"Alpha", "Beta">>},
      mo_num \in 1..2, after \in BOOLEAN, gaps \in BOOLEAN }
  \cup
  { Flatten([i \in 1..Len(ks) |-> FchkAoRecord(ks[i], <<0, 0>>)]) :
      ks \in {x \in SeqsUpTo(FchkAoKinds, 3) : \A i, j \in 1..Len(x) : i # j => x[i] # x[j]} }

(***************************************************************************)
(* read_gaussian_fchk                                                      *)
(***************************************************************************)
\* the locals of read_gaussian_fchk; index holds a column or row number, or,
\* in the shell records, the key named by ikey; a local outside defd is not
\* bound yet
FchkLocals ==
  [el_num |-> <<0, 0>>, index |-> 0, ikey |-> "int", at_num |-> 0, ao_num |-> 0, switch |-> 0,
   count_mo |-> 0, count |-> 0, xyz |-> <<>>, mo_num |-> 0, defd |-> {}]

InitFchk ==
  /\ parser = "fchk"
  /\ pc = "read"
  /\ err = "none"
  /\ all_mo \in BOOLEAN
  /\ il = 1
  /\ flines \in FchkFamilies
  /\ sec_flag = "None"
  /\ basis_count = 0
  /\ qc = QCinfo
  /\ loc = FchkLocals
  /\ lim = <<>>

FchkRead(k) == parser = "fchk" /\ pc = "read" /\ il <= Len(flines) /\ flines[il].k = k

\* one pass through the body of the loop
FchkStep(sf, bc, q, l) ==
  /\ il' = il + 1
  /\ sec_flag' = sf
  /\ basis_count' = bc
  /\ qc' = q
  /\ loc' = l
  /\ UNCHANGED <<parser, pc, err, all_mo, flines, lim>>

\* 'Number of alpha electrons' and 'Number of beta electrons'
FchkAlphaElectrons ==
  /\ FchkRead("nalpha")
  /\ FchkStep(sec_flag, basis_count, qc, [loc EXCEPT !.el_num[1] = flines[il].v[1]])

FchkBetaElectrons ==
  /\ FchkRead("nbeta")
  /\ FchkStep(sec_flag, basis_count, qc, [loc EXCEPT !.el_num[2] = flines[il].v[1]])

\* the rows ['', ii, ''] for ii in range(at_num)
EmptyGeoInfo(at_num) == [i \in 1..at_num |-> <<NoKey, i - 1, NoKey>>]

\* 'Atomic numbers' fills column 0 of geo_info, 'Integer atomic weights' column 2
FchkGeoInfoHdr(k, column) ==
  /\ FchkRead(k)
  /\ LET n == flines[il].v[1]
     IN FchkStep("geo_info", basis_count,
                 [qc EXCEPT !.geo_info = IF @ = <<>> THEN EmptyGeoInfo(n) ELSE @],
                 [loc EXCEPT !.index = column, !.ikey = "int", !.at_num = n, !.count = 0,
                             !.defd = @ \cup {"count"}])

\* 'Total Energy'
FchkEnergy ==
  /\ FchkRead("etot")
  /\ FchkStep(sec_flag, basis_count, [qc EXCEPT !.etot = flines[il].v[1]], loc)

\* 'Current cartesian coordinates'
FchkCoordinates ==
  /\ FchkRead("coords")
  /\ FchkStep("geo_pos", basis_count, [qc EXCEPT !.geo_spec = <<>>],
              [loc EXCEPT !.at_num = flines[il].v[1] \div 3, !.count = 0, !.xyz = <<>>,
                          !.defd = @ \cup {"count", "xyz"}])

\* a shell of ao_spec is a dictionary: keys holds the keys that are set
EmptyShell == [keys |-> {}, type |-> "", pnum |-> 0, atom |-> 0, coeffs |-> <<>>]

\* 'Shell types', 'Number of primitives per shell', 'Shell to atom map'
FchkAoInfoHdr(k, key) ==
  /\ FchkRead(k)
  /\ LET n == flines[il].v[1]
     IN FchkStep("ao_info", basis_count,
                 [qc EXCEPT !.ao_spec = IF @ = <<>> THEN [i \in 1..n |-> EmptyShell] ELSE @],
                 [loc EXCEPT !.index = 0, !.ikey = key, !.ao_num = n, !.count = 0,
                             !.defd = @ \cup {"count"}])

ShellTypesFirst == "IOError: Shell types need to be defined before the AO exponents!"

\* 'Primitive exponents' fills column 0 of the coefficients, 'Contraction
\* coefficients' column 1
FchkAoCoeffsHdr(k, switch) ==
  /\ FchkRead(k)
  /\ LET l == [loc EXCEPT !.ao_num = flines[il].v[1], !.count = 0, !.switch = switch,
                          !.index = 0, !.ikey = "int", !.defd = @ \cup {"count"}]
     IN IF qc.ao_spec = <<>> THEN Fail(ShellTypesFirst)
        ELSE IF "coeffs" \in qc.ao_spec[1].keys THEN FchkStep("ao_coeffs", basis_count, qc, l)
        ELSE IF \E i \in 1..Len(qc.ao_spec) : "pnum" \notin qc.ao_spec[i].keys
          THEN Fail("KeyError")
        ELSE FchkStep("ao_coeffs", basis_count,
               [qc EXCEPT !.ao_spec =
                  [i \in 1..Len(qc.ao_spec) |->
                     [qc.ao_spec[i] EXCEPT !.keys = @ \cup {"coeffs"},
                                  !.coeffs = [r \in 1..qc.ao_spec[i].pnum |-> <<0, 0>>]]]],
               l)

\* the orbitals an 'Orbital Energies' line appends to mo_spec
FchkNewOrbitals(mo_spec, mo_num, bc, i, occ) ==
  mo_spec \o [ii \in 1..mo_num |->
                [coeffs |-> [r \in 1..bc |-> 0], energy |-> 0,
                 occ_num |-> IF ii - 1 < i THEN occ * OccUnit ELSE 0,
                 sym |-> <<ToString(Len(mo_spec) + ii), ".", "1">>]]

\* 'Orbital Energies'
FchkOrbitalEnergies ==
  /\ FchkRead("eorb")
  /\ LET n   == flines[il].v[1]
         eq  == loc.el_num[1] = loc.el_num[2]
         i   == IF eq THEN loc.el_num[1]
                ELSE loc.el_num[IF flines[il].s = "Alpha" THEN 1 ELSE 2]
         occ == IF eq THEN 2 ELSE 1
     IN FchkStep("mo_eorb", basis_count,
                 [qc EXCEPT !.mo_spec = FchkNewOrbitals(@, n, basis_count, i, occ)],
                 [loc EXCEPT !.mo_num = n, !.index = 0, !.ikey = "int",
                             !.count = Len(qc.mo_spec), !.defd = @ \cup {"count", "mo_num"}])

\* 'MO coefficients'
FchkMoCoefficients ==
  /\ FchkRead("mocoeffs")
  /\ FchkStep("mo_coeffs", basis_count, qc,
              [loc EXCEPT !.count = 0, !.mo_num = flines[il].v[1],
                          !.defd = @ \cup {"count", "mo_num"}])

\* the state a data line is read in, and the exception that ends the reading
FchkState == [sf |-> sec_flag, bc |-> basis_count, q |-> qc, l |-> loc, e |-> "none"]
Raise(st, e) == [st EXCEPT !.e = e]

\* orbkit.core: orbit, the letters of the shell types
orbit == <<"s", "p", "d", "f", "g">>

\* section geo_info: the loop over the tokens of a line
RECURSIVE GeoInfoTokens(_, _)
GeoInfoTokens(st, toks) ==
  IF toks = <<>> \/ st.e # "none" THEN st
  ELSE IF st.l.count + 1 > Len(st.q.geo_info) THEN Raise(st, "IndexError")
  ELSE LET count == st.l.count + 1
       IN GeoInfoTokens(
            [st EXCEPT !.q.geo_info[count][st.l.index + 1] = Head(toks),
                       !.l.count = count,
                       !.sf = IF count = st.l.at_num THEN "None" ELSE @],
            Tail(toks))

\* section geo_pos: three tokens make one row of geo_spec
RECURSIVE GeoPosTokens(_, _)
GeoPosTokens(st, toks) ==
  IF toks = <<>> THEN st
  ELSE LET xyz == Append(st.l.xyz, Head(toks))
       IN GeoPosTokens(
            IF Len(xyz) = 3
              THEN [st EXCEPT !.q.geo_spec = Append(@, [x |-> xyz, to_bohr |-> FALSE]),
                              !.l.xyz = <<>>,
                              !.l.count = @ + 1,
                              !.sf = IF st.l.count + 1 = st.l.at_num THEN "None" ELSE @]
              ELSE [st EXCEPT !.l.xyz = xyz],
            Tail(toks))

\* section ao_info: one value of the key index for each shell
RECURSIVE AoInfoTokens(_, _)
AoInfoTokens(st, toks) ==
  IF toks = <<>> \/ st.e # "none" THEN st
  ELSE LET ii    == Head(toks)
           abs   == IF ii < 0 THEN -ii ELSE ii
           count == st.l.count + 1
           key   == st.l.ikey
       IN IF key = "type" /\ abs + 1 > Len(orbit) THEN Raise(st, "IndexError")
          ELSE IF count > Len(st.q.ao_spec) THEN Raise(st, "IndexError")
          ELSE AoInfoTokens(
                 [st EXCEPT !.bc = IF key = "type" THEN @ + l_deg(lquant(orbit[abs + 1])) ELSE @,
                            !.q.ao_spec[count] =
                               CASE key = "type" -> [@ EXCEPT !.keys = @ \cup {"type"},
                                                              !.type = orbit[abs + 1]]
                                 [] key = "atom" -> [@ EXCEPT !.keys = @ \cup {"atom"},
                                                              !.atom = ii - 1]
                                 [] OTHER        -> [@ EXCEPT !.keys = @ \cup {"pnum"},
                                                              !.pnum = ii],
                            !.l.count = count,
                            !.sf = IF count = st.l.ao_num THEN "None" ELSE @],
                 Tail(toks))

\* section ao_coeffs: column switch of the coefficients, shell after shell
RECURSIVE AoCoeffsTokens(_, _)
AoCoeffsTokens(st, toks) ==
  IF toks = <<>> \/ st.e # "none" THEN st
  ELSE LET index == st.l.index + 1
           count == st.l.count + 1
       IN IF index > Len(st.q.ao_spec) THEN Raise(st, "IndexError")
          ELSE IF "coeffs" \notin st.q.ao_spec[index].keys THEN Raise(st, "KeyError")
          ELSE IF count > Len(st.q.ao_spec[index].coeffs) THEN Raise(st, "IndexError")
          ELSE AoCoeffsTokens(
                 [st EXCEPT !.q.ao_spec[index].coeffs[count][st.l.switch + 1] = Head(toks),
                            !.l.ao_num = @ - 1,
                            !.l.count = IF count = st.q.ao_spec[index].pnum THEN 0 ELSE count,
                            !.l.index = IF count = st.q.ao_spec[index].pnum THEN @ + 1 ELSE @],
                 Tail(toks))

\* section mo_eorb: the energies of the orbitals from place count on
RECURSIVE MoEorbTokens(_, _)
MoEorbTokens(st, toks) ==
  IF toks = <<>> \/ st.e # "none" THEN st
  ELSE LET count == st.l.count + 1
       IN IF count > Len(st.q.mo_spec) THEN Raise(st, "IndexError")
          ELSE IF st.l.index # 0 /\ st.bc = 0 THEN Raise(st, "ZeroDivisionError")
          ELSE MoEorbTokens(
                 [st EXCEPT !.q.mo_spec[count].energy = Head(toks),
                            !.l.count = count,
                            !.sf = IF st.l.index # 0 /\ count % st.bc = 0 THEN "None" ELSE @],
                 Tail(toks))

\* section mo_coeffs: basis_count coefficients for each orbital
RECURSIVE MoCoeffsTokens(_, _)
MoCoeffsTokens(st, toks) ==
  IF toks = <<>> \/ st.e # "none" THEN st
  ELSE LET index == st.l.index + 1
           count == st.l.count + 1
           full  == count = st.bc
           next  == IF full THEN st.l.index + 1 ELSE st.l.index
       IN IF st.l.ikey # "int" THEN Raise(st, "TypeError")
          ELSE IF index > Len(st.q.mo_spec) THEN Raise(st, "IndexError")
          ELSE IF count > Len(st.q.mo_spec[index].coeffs) THEN Raise(st, "IndexError")
          ELSE MoCoeffsTokens(
                 [st EXCEPT !.q.mo_spec[index].coeffs[count] = Head(toks),
                            !.l.count = IF full THEN 0 ELSE count,
                            !.l.index = next,
                            !.sf = IF next # 0 /\ next % st.bc = 0 THEN "None" ELSE @],
                 Tail(toks))

\* a line without keyword: the tokens go to the section sec_flag names; the
\* words of a title or of a record line the reader has no keyword for are no
\* numbers
FchkDataLine ==
  /\ parser = "fchk" /\ pc = "read" /\ il <= Len(flines)
  /\ flines[il].k \in {"data", "other", "text"}
  /\ LET toks == flines[il].v
         r == CASE sec_flag = "geo_info"  -> GeoInfoTokens(FchkState, toks)
                [] sec_flag = "geo_pos"   -> GeoPosTokens(FchkState, toks)
                [] sec_flag = "ao_info"   -> AoInfoTokens(FchkState, toks)
                [] sec_flag = "ao_coeffs" ->
                     LET a == AoCoeffsTokens(FchkState, toks)
                     IN IF a.e = "none" /\ a.l.ao_num = 0 THEN [a EXCEPT !.sf = "None"] ELSE a
                [] sec_flag = "mo_eorb"   -> MoEorbTokens(FchkState, toks)
                [] sec_flag = "mo_coeffs" -> MoCoeffsTokens(FchkState, toks)
                [] OTHER                  -> FchkState
     IN IF flines[il].k # "data" /\ sec_flag \notin {"None", "geo_info"} THEN Fail("ValueError")
        ELSE IF r.e # "none" THEN Fail(r.e)
        ELSE FchkStep(r.sf, r.bc, r.q, r.l)

\* the end of the file ends the loop
FchkEOF ==
  /\ parser = "fchk" /\ pc = "read" /\ il > Len(flines)
  /\ pc' = "filter"
  /\ UNCHANGED <<parser, err, all_mo, il, flines, sec_flag, basis_count, qc, loc, lim>>

\* the final filter and the return
FchkFilter ==
  /\ parser = "fchk" /\ pc = "filter"
  /\ pc' = "done"
  /\ qc' = IF all_mo THEN qc ELSE [qc EXCEPT !.mo_spec = OccupiedOnly(@)]
  /\ UNCHANGED <<parser, err, all_mo, il, flines, sec_flag, basis_count, loc, lim>>

NextFchk ==
  \/ FchkAlphaElectrons \/ FchkBetaElectrons
  \/ FchkGeoInfoHdr("atnum", 0) \/ FchkGeoInfoHdr("weights", 2)
  \/ FchkEnergy \/ FchkCoordinates
  \/ FchkAoInfoHdr("types", "type") \/ FchkAoInfoHdr("pnum", "pnum") \/ FchkAoInfoHdr("map", "atom")
  \/ FchkAoCoeffsHdr("exps", 0) \/ FchkAoCoeffsHdr("contr", 1)
  \/ FchkOrbitalEnergies \/ FchkMoCoefficients
  \/ FchkDataLine \/ FchkEOF \/ FchkFilter

SpecFchk == InitFchk /\ [][NextFchk]_vars

(***************************************************************************)
(* Claims about read_gaussian_fchk                                         *)
(***************************************************************************)
\* C16: a 'Primitive exponents' or 'Contraction coefficients' line that is
\* read before any 'Shell types' line ends the call with the IOError 'Shell
\* types need to be defined before the AO exponents!', also when a 'Number
\* of primitives per shell' or a 'Shell to atom map' record was read before
C16_ShellTypesFirst ==
  [][(/\ parser = "fchk" /\ pc = "read" /\ il <= Len(flines)
      /\ flines[il].k \in {"exps", "contr"}
      /\ \A j \in 1..(il - 1) : flines[j].k # "types") =>
       (pc' = "failed" /\ err' = ShellTypesFirst)]_vars

\* the keyword lines that open a record, and the section each one opens
FchkSection(k) ==
  CASE k \in {"atnum", "weights"}     -> "geo_info"
    [] k = "coords"                   -> "geo_pos"
    [] k \in {"types", "pnum", "map"} -> "ao_info"
    [] k \in {"exps", "contr"}        -> "ao_coeffs"
    [] k = "eorb"                     -> "mo_eorb"
    [] OTHER                          -> "mo_coeffs"
FchkRecords ==
  {"atnum", "weights", "coords", "types", "pnum", "map", "exps", "contr", "eorb", "mocoeffs"}

\* the loop stands behind the data lines il - n .. il - 1 of the record that
\* line h opens, and these hold no more than the declared number of tokens
RecordAt(h) ==
  /\ h \in 1..(il - 1)
  /\ flines[h].k \in FchkRecords
  /\ \A j \in (h + 1)..(il - 1) : flines[j].k = "data"
Consumed(h) == SumSeq([j \in 1..(il - 1 - h) |-> Len(flines[h + j].v)])

\* C17: while a record is read the section flag names its section as long as
\* fewer tokens than declared have been consumed, and it is None as soon as
\* exactly the declared number has been consumed, for every kind of record
C17_RecordComplete ==
  (parser = "fchk" /\ pc = "read") =>
    \A h \in 1..Len(flines) :
      (RecordAt(h) /\ Consumed(h) <= flines[h].v[1]) =>
        sec_flag = IF Consumed(h) = flines[h].v[1] THEN "None" ELSE FchkSection(flines[h].k)

\* the serial of an entry of geo_info, as each reader stores it
SerialOf(e) ==
  CASE parser = "gamess" -> e.serial
    [] OTHER             -> e[2]

\* the shell has its atom index
HasAtom(shell) == parser = "fchk" => "atom" \in shell.keys

\* C19: in a returned record with a geometry the k-th entry of geo_info has
\* the serial k, and the atom index of every shell of ao_spec is the serial
\* of its atom less one
C19_SerialOneBased ==
  (Returned /\ qc.geo_info # <<>>) =>
    /\ \A k \in 1..Len(qc.geo_info) : SerialOf(qc.geo_info[k]) = k
    /\ \A j \in 1..Len(qc.ao_spec) :
         HasAtom(qc.ao_spec[j]) =>
           /\ qc.ao_spec[j].atom + 1 \in 1..Len(qc.geo_info)
           /\ qc.ao_spec[j].atom = SerialOf(qc.geo_info[qc.ao_spec[j].atom + 1]) - 1

(***************************************************************************)
(* main_read                                                               *)
(***************************************************************************)
\* the values of the argument itype: the four keys of reader and one more
Itypes == {"molden", "gamess", "gaussian.log", "gaussian.fchk", "xyz"}

\* before the call of a reader: no reader runs, loc holds the argument itype
InitMain ==
  /\ parser = "none"
  /\ pc = "main"
  /\ err = "none"
  /\ all_mo \in BOOLEAN
  /\ il = 0
  /\ flines = <<>>
  /\ sec_flag = "None"
  /\ basis_count = 0
  /\ qc = QCinfo
  /\ loc \in {[itype |-> t] : t \in Itypes}
  /\ lim = <<>>

\* the dictionary reader with the entries of two readers exchanged
reader_exchanged ==
  [t \in {"molden", "gamess", "gaussian.log", "gaussian.fchk"} |->
     CASE t = "molden" -> "molden" [] t = "gamess" -> "gamess"
       [] t = "gaussian.log" -> "fchk" [] OTHER -> "log"]

\* the dictionary reader
reader ==
  [t \in {"molden", "gamess", "gaussian.log", "gaussian.fchk"} |->
     CASE t = "molden" -> "molden" [] t = "gamess" -> "gamess"
       [] t = "gaussian.log" -> "log" [] OTHER -> "fchk"]

\* return reader[itype](filename, all_mo=all_mo): the reader starts on the
\* file with the flag of the caller; read_gaussian_log gets the default
\* orientation, its selections are the numbers typed at its prompts
main_read ==
  /\ parser = "none" /\ pc = "main"
  /\ IF loc.itype \notin DOMAIN reader THEN Fail("KeyError")
     ELSE /\ parser' = reader[loc.itype]
          /\ all_mo' = all_mo
          /\ err' = "none"
          /\ basis_count' = 0
          /\ qc' = QCinfo
          /\ CASE parser' = "molden" ->
                    /\ pc' = "check" /\ il' = 1 /\ sec_flag' = "None" /\ lim' = <<>>
                    /\ flines' \in MoldenFamilies
                    /\ loc' = MoldenLocals
               [] parser' = "gamess" ->
                    /\ pc' = "read" /\ il' = 0 /\ sec_flag' = "False" /\ flines' = <<>>
                    /\ lim' \in GamessFamilies
                    /\ loc' = GamessLocals
               [] parser' = "log" ->
                    /\ pc' = "census" /\ il' = 1 /\ sec_flag' = "None" /\ lim' = <<>>
                    /\ \E fam \in LogFamilies :
                         /\ flines' \in fam.files
                         /\ \E g \in fam.i_geo, a \in fam.i_ao, m \in fam.i_mo :
                              loc' = LogLocals("standard", g, a, m)
               [] OTHER ->
                    /\ pc' = "read" /\ il' = 1 /\ sec_flag' = "None" /\ lim' = <<>>
                    /\ flines' \in FchkFamilies
                    /\ loc' = FchkLocals

\* main_read with read_molden, read_gaussian_log and read_gaussian_fchk run
\* to their end; read_gamess is followed from its call on in SpecGamess
SpecMain == InitMain /\ [][main_read \/ NextMolden \/ NextLog \/ NextFchk]_vars

(***************************************************************************)
(* Claims about main_read                                                  *)
(***************************************************************************)
\* the reader each supported format tag stands for
ReaderOf(itype) ==
  CASE itype = "molden"        -> "molden"
    [] itype = "gamess"        -> "gamess"
    [] itype = "gaussian.log"  -> "log"
    [] itype = "gaussian.fchk" -> "fchk"

\* C18: with a tag outside the four supported ones main_read fails (the
\* KeyError of the lookup) and no reader is started; with one of the four it
\* starts the reader of that tag with its own all_mo on a fresh record, and
\* from then on this one reader runs with that flag: no second reader starts
C18_Dispatch ==
  [][/\ pc = "main" =>
          IF loc.itype \in {"molden", "gamess", "gaussian.log", "gaussian.fchk"}
            THEN /\ parser' = ReaderOf(loc.itype)
                 /\ all_mo' = all_mo
                 /\ pc' \notin {"main", "failed", "done"}
                 /\ err' = "none"
                 /\ qc' = QCinfo
            ELSE /\ pc' = "failed" /\ err' = "KeyError"
                 /\ parser' = "none"
     /\ parser # "none" => (parser' = parser /\ all_mo' = all_mo /\ pc' # "main")]_vars

\* read_gaussian_fchk, called by main_read with all_mo = True, has returned
\* a record with orbitals
C18_Witness ==
  /\ parser = "fchk" /\ Returned /\ all_mo
  /\ qc.mo_spec # <<>> /\ qc.geo_info # <<>>

(***************************************************************************)
(* Claims about the geometry                                               *)
(***************************************************************************)
\* Gamess files that hold geometry sections only, in either unit
GamessGeometries ==
  { [GamessSmall EXCEPT !.todo = t, !.names = AtomNames, !.bohr = BOOLEAN, !.atoms = MaxAtoms] :
      t \in {<<"geo">>, <<"geo", "geo">>} }

InitGamessGeometry ==
  /\ parser = "gamess"
  /\ pc = "read"
  /\ err = "none"
  /\ all_mo \in BOOLEAN
  /\ il = 0
  /\ flines = <<>>
  /\ sec_flag = "False"
  /\ basis_count = 0
  /\ qc = QCinfo
  /\ loc = GamessLocals
  /\ lim \in GamessGeometries

\* the steps of read_gamess that read a geometry section
NextGamessGeometry == GamessGeoHdr \/ GamessGeoSkip \/ GamessGeoBlank \/ GamessGeoAtom

\* the four readers side by side, read_gamess over its geometry sections
SpecGeometry ==
  (InitMolden \/ InitGamessGeometry \/ InitLog \/ InitFchk)
  /\ [][NextMolden \/ NextGamessGeometry \/ NextLog \/ NextFchk]_vars

\* the row of geo_spec was multiplied by 1/0.52917720859
Converted(row) == IF parser = "gamess" THEN row.converted ELSE row.to_bohr

\* the '[Atoms]' line of the section that line i of a molden file stands in
AtomsHeader(fl, i) == CHOOSE h \in 1..i : fl[h].k = "atoms" /\ \A j \in (h + 1)..i : fl[j].k # "atoms"

\* what the source says about the unit of the coordinates the loop now reads
SourceInAngstrom ==
  CASE parser = "molden" -> flines[AtomsHeader(flines, il)].s = "Angs"
    [] parser = "gamess" -> lim.unit # "(BOHR)"
    [] parser = "log"    -> TRUE
    [] OTHER             -> FALSE

Outcome == [pc |-> pc, err |-> err, qc |-> IF pc = "done" THEN qc ELSE QCinfo]

\* a second call whose record is the object the first call filled, as if
\* QCinfo() handed out one shared record
CallAgainSharedRecord ==
  /\ parser \in {"molden", "log", "fchk"}
  /\ pc \in {"done", "failed"}
  /\ lim = <<>>
  /\ lim' = <<Outcome>>
  /\ err' = "none"
  /\ il' = 1
  /\ sec_flag' = "None"
  /\ basis_count' = 0
  /\ pc' = CASE parser = "molden" -> "check" [] parser = "log" -> "census" [] OTHER -> "read"
  /\ loc' = CASE parser = "molden" -> MoldenLocals
              [] parser = "log" -> LogLocals(loc.args.orientation, loc.args.i_geo,
                                             loc.args.i_ao, loc.args.i_mo)
              [] OTHER -> FchkLocals
  /\ UNCHANGED <<parser, all_mo, flines, qc>>

\* the reader is called once more on the same file with the same arguments,
\* after the first call has ended: all its names are local and are bound
\* anew by its first statements; lim keeps how the first call ended
CallAgain ==
  /\ parser \in {"molden", "log", "fchk"}
  /\ pc \in {"done", "failed"}
  /\ lim = <<>>
  /\ lim' = <<Outcome>>
  /\ err' = "none"
  /\ il' = 1
  /\ sec_flag' = "None"
  /\ basis_count' = 0
  /\ qc' = QCinfo
  /\ pc' = CASE parser = "molden" -> "check" [] parser = "log" -> "census" [] OTHER -> "read"
  /\ loc' = CASE parser = "molden" -> MoldenLocals
              [] parser = "log" -> LogLocals(loc.args.orientation, loc.args.i_geo,
                                             loc.args.i_ao, loc.args.i_mo)
              [] OTHER -> FchkLocals
  /\ UNCHANGED <<parser, all_mo, flines>>

\* read_molden, read_gaussian_log and read_gaussian_fchk, each called twice
SpecTwice ==
  (InitMolden \/ InitLog \/ InitFchk)
  /\ [][NextMolden \/ NextLog \/ NextFchk \/ CallAgain]_vars

MaxPrimLines == 2            \* primitive lines of one shell

\* complete Gamess files, each rich in one part: several atoms and basis
\* blocks (with one or two geometry sections), several shells with several
\* primitive lines, several orbitals with every pair of electron counts
GamessRich ==
  { [GamessSmall EXCEPT !.todo = t, !.names = AtomNames, !.exps = ShellExps,
                        !.atoms = MaxAtoms, !.blocks = MaxBlocks] :
      t \in {GamessKeywords, <<"geo">> \o GamessKeywords} }
  \cup
  { [GamessSmall EXCEPT !.types = {"S", "P", "L"}, !.exps = ShellExps,
                        !.shells = MaxShells, !.prims = MaxPrimLines],
    [GamessSmall EXCEPT !.todo = <<"geo", "basis", "mult", "occ", "occ", "ecp", "occ", "occ",
                                   "final", "eigen", "eigen", "nstates", "cis">>,
                        !.mos = MaxMO, !.cols = MaxCols, !.rows = MaxRows,
                        !.occs = 0..MaxOcc] }

InitGamessRich ==
  /\ parser = "gamess"
  /\ pc = "read"
  /\ err = "none"
  /\ all_mo \in BOOLEAN
  /\ il = 0
  /\ flines = <<>>
  /\ sec_flag = "False"
  /\ basis_count = 0
  /\ qc = QCinfo
  /\ loc = GamessLocals
  /\ lim \in GamessRich

SpecGamessRich == InitGamessRich /\ [][NextGamess]_vars

(***************************************************************************)
(* Claims about the basis of read_gamess                                   *)
(***************************************************************************)
\* the canonical shell list of an atom type: the first block of the basis
\* section that bears its name
FirstBlock(AO, name) ==
  AO[CHOOSE ii \in 1..Len(AO) :
       /\ AO[ii][1].atom_type = name
       /\ \A jj \in 1..(ii - 1) : AO[jj][1].atom_type # name]

\* the serial numbers of geo_info count its rows
SerialsCountRows == \A kk \in 1..Len(qc.geo_info) : qc.geo_info[kk].serial = kk

PrimitiveStep ==
  /\ parser = "gamess" /\ sec_flag = "ao_info" /\ pc' = "read"
  /\ Len(loc'.AO) = Len(loc.AO) /\ loc'.AO # loc.AO

\* the contraction columns of a primitive line of shell type t
Columns(t) == IF t = "L" THEN <<Contraction1, Contraction2>> ELSE <<Contraction1>>

\* pnum counts the coefficient pairs, in every shell read and returned
PnumCountsPairs(AO, ao_spec) ==
  /\ \A ii \in 1..Len(AO) : \A jj \in 1..Len(AO[ii]) :
       AO[ii][jj].pnum = Len(AO[ii][jj].coeffs)
  /\ \A i \in 1..Len(ao_spec) : ao_spec[i].pnum = Len(ao_spec[i].coeffs)

\* C23: a primitive line of type t with exponent e either opens the shells
\* of its type (for L the siblings s and p) with the one pair <<e, column>>
\* each, or adds that pair to each of the last shells and one to their
\* primitive counts, and leaves the shells before them alone; so after n
\* lines the siblings of an L shell hold n pairs each, the k-th with the
\* exponent of the k-th line, and pnum is the number of pairs in every shell
C23_CombinedShell ==
  [][/\ PnumCountsPairs(loc'.AO, qc'.ao_spec)
     /\ PrimitiveStep =>
          LET last == Len(loc.AO)
              old  == loc.AO[last]
              new  == loc'.AO[last]
              t    == lim'.line[1]
              e    == lim'.line[2]
              m    == Len(Columns(t))
          IN /\ \A ii \in 1..(last - 1) : loc'.AO[ii] = loc.AO[ii]
             /\ \/ /\ Len(new) = Len(old) + m
                   /\ \A jj \in 1..Len(old) : new[jj] = old[jj]
                   /\ \A i \in 1..m :
                        /\ new[Len(old) + i].pnum = 1
                        /\ new[Len(old) + i].coeffs = << <<e, Columns(t)[i]>> >>
                   /\ t = "L" => new[Len(old) + 1].type = "s" /\ new[Len(old) + 2].type = "p"
                \/ /\ Len(new) = Len(old)
                   /\ \A jj \in 1..(Len(old) - m) : new[jj] = old[jj]
                   /\ \A i \in 1..m :
                        LET jj == Len(old) - m + i
                        IN new[jj] = [old[jj] EXCEPT
                                        !.coeffs = Append(@, <<e, Columns(t)[i]>>),
                                        !.pnum = @ + 1]]_vars

\* a file whose basis holds an L shell of two primitive lines with the
\* exponents 1 and 2 was read to its end: ao_spec holds the two siblings
C23_Witness ==
  /\ parser = "gamess" /\ Returned
  /\ Len(qc.ao_spec) = 2
  /\ qc.ao_spec[1].type = "s" /\ qc.ao_spec[2].type = "p"
  /\ qc.ao_spec[1].pnum = 2 /\ qc.ao_spec[2].pnum = 2
  /\ qc.ao_spec[1].coeffs = << <<1, Contraction1>>, <<2, Contraction1>> >>
  /\ qc.ao_spec[2].coeffs = << <<1, Contraction2>>, <<2, Contraction2>> >>

(***************************************************************************)
(* Claims about the occupation loop of read_gamess                         *)
(***************************************************************************)
Max(a, b) == IF a >= b THEN a ELSE b

\* the occupations assigned so far, in units of 1e-7
Assigned == SumSeq([i \in 1..Len(qc.mo_spec) |-> qc.mo_spec[i].occ_num])

\* C28: in and after the occupation loop neither counter is negative, and
\* the occupations assigned so far plus the two counters make up the alpha
\* plus beta count the loop started with; with at least max(alpha, beta)
\* orbitals the occupations of the returned record sum to alpha + beta
C28_OccupationSum ==
  (parser = "gamess" /\ pc \in {"occ", "done"} /\ Len(lim.electrons) >= 2) =>
    LET alpha == lim.electrons[1]
        beta  == lim.electrons[2]
    IN /\ loc.occ[1] >= 0 /\ loc.occ[2] >= 0
       /\ Assigned + (loc.occ[1] + loc.occ[2]) * OccUnit = (alpha + beta) * OccUnit
       /\ (Returned /\ Len(qc.mo_spec) >= Max(alpha, beta)) =>
            Assigned = (alpha + beta) * OccUnit

\* a file with one alpha and two beta electrons and two orbitals was read to
\* its end: the occupations sum to three
C28_Witness ==
  /\ parser = "gamess" /\ Returned
  /\ Len(lim.electrons) >= 2 /\ lim.electrons[1] = 1 /\ lim.electrons[2] = 2
  /\ Len(qc.mo_spec) = 2
  /\ Assigned = 3 * OccUnit

(***************************************************************************)
(* Claims about the orbital labels of read_gaussian_log                    *)
(***************************************************************************)
\* the step reads the 'Orbital Coefficients:' line of the selected block
SelectedMOHeader ==
  /\ parser = "log" /\ pc = "extract" /\ pc' = "extract"
  /\ il <= Len(flines) /\ flines[il].k = "mohdr"
  /\ loc.i_mo = loc.c_mo

\* how often the label of place i stands among the first i labels
Occurrences(labels, i) ==
  Len(SelectSeq(SubSeq(labels, 1, i), LAMBDA x : x = labels[i]))

\* C24: at the header of the selected orbital block one orbital is allocated
\* for each symmetry label, with the label '<k>.<label>', k counting the
\* occurrences of the label up to and including the orbital; the labels of
\* the allocated orbitals are pairwise distinct
C24_SymmetryLabels ==
  [][SelectedMOHeader =>
       LET labels == loc'.orb_sym
           orbs   == qc'.mo_spec
       IN /\ Len(orbs) = Len(labels)
          /\ \A i \in 1..Len(orbs) : orbs[i].sym = <<Occurrences(labels, i)>> \o labels[i]
          /\ \A i, j \in 1..Len(orbs) : orbs[i].sym = orbs[j].sym => i = j]_vars

\* a file whose 'Orbital symmetries:' section names the same label twice is
\* in its selected orbital block: the two orbitals are numbered 1 and 2
C24_Witness ==
  /\ parser = "log" /\ pc = "extract" /\ sec_flag = "mo_info"
  /\ \E i \in 1..Len(flines) : flines[i].k = "syms" /\ flines[i].v = <<1, 1>>
  /\ Len(qc.mo_spec) = 2
  /\ qc.mo_spec[1].sym = <<1, 1, "">> /\ qc.mo_spec[2].sym = <<2, 1, "">>

(***************************************************************************)
(* Claims about the orbital section of read_molden                         *)
(***************************************************************************)
\* the step reads a 'Sym=' row of the orbital section and goes on
SymStep ==
  /\ parser = "molden" /\ pc = "read" /\ pc' = "read"
  /\ il <= Len(flines) /\ flines[il].k = "moinfo" /\ flines[il].s = "Sym"
  /\ sec_flag = "mo_info"

HasPoint(chars) == \E i \in 1..Len(chars) : chars[i] = "."
IsInteger(chars) == chars # <<>> /\ \A i \in 1..Len(chars) : chars[i] \in Digits

\* the label of the orbital the step worked on
StoredSym == qc'.mo_spec[Len(qc'.mo_spec)].sym

\* an orbital keeps the label it has, and a new orbital gets '<n>.1', in
\* every step of the loop that reads no 'Sym=' row
DefaultSymKept ==
  (/\ parser = "molden" /\ pc = "read" /\ pc' = "read"
   /\ ~SymStep
   /\ Len(qc'.mo_spec) >= Len(qc.mo_spec)) =>
    /\ \A n \in 1..Len(qc.mo_spec) : qc'.mo_spec[n].sym = qc.mo_spec[n].sym
    /\ \A n \in (Len(qc.mo_spec) + 1)..Len(qc'.mo_spec) :
         qc'.mo_spec[n].sym = <<ToString(n), ".", "1">>

\* C25 as stated: a 'Sym=' value without a decimal point is stored as
\* '<int>.1', <int> being the integer in the value; a value with a decimal
\* point is stored unchanged; an orbital without a Sym row keeps '<n>.1'
C25_SymIntegerLabel ==
  [][/\ SymStep =>
          LET value == flines[il].w
          IN IF HasPoint(value) THEN StoredSym = value
             ELSE StoredSym = FirstDigits(value) \o <<".", "1">>
     /\ DefaultSymKept]_vars

\* C25 as the code has it: a value that is an integer is stored as
\* '<int>.1'; any other value without a decimal point is stored with a point
\* put behind every occurrence of its first run of digits, and ends the call
\* with AttributeError if it holds no digit; a value with a decimal point is
\* stored unchanged; an orbital without a Sym row keeps '<n>.1'
C25_SymLabel ==
  [][/\ SymStep =>
          LET value == flines[il].w
              a     == FirstDigits(value)
          IN IF HasPoint(value) THEN StoredSym = value
             ELSE IF IsInteger(value) THEN StoredSym = value \o <<".", "1">>
             ELSE StoredSym = Replace(value, a, a \o <<".">>)
     /\ (/\ parser = "molden" /\ pc = "read" /\ sec_flag = "mo_info" /\ il <= Len(flines)
         /\ flines[il].k = "moinfo" /\ flines[il].s = "Sym"
         /\ ~HasPoint(flines[il].w) /\ FirstDigits(flines[il].w) = <<>>) =>
          (pc' = "failed" /\ err' = "AttributeError")
     /\ DefaultSymKept]_vars

\* the file with 'Sym=2a1' was read to its end: the orbital is labelled '2.a1'
C25_Witness ==
  /\ parser = "molden" /\ Returned
  /\ \E i \in 1..Len(flines) : flines[i].s = "Sym" /\ flines[i].w = <<"2", "a", "1">>
  /\ Len(qc.mo_spec) = 1
  /\ qc.mo_spec[1].sym = <<"2", ".", "a", "1">>

\* the line the loop reads next is none of the keyword lines
NonKeywordLine ==
  /\ parser = "molden" /\ pc = "read" /\ il <= Len(flines)
  /\ flines[il].k \notin {"marker", "energy", "atoms", "gto", "mo", "sto"}

\* C26: in the [MO] section a line with a bracketed header that is no keyword
\* ends the section: sec_flag becomes None and the record is left alone; from
\* then on no line that is not a keyword line changes geo_info, ao_spec or
\* mo_spec, or the flag
C26_UnknownSectionEndsMO ==
  [][/\ (NonKeywordLine /\ sec_flag = "mo_info" /\ flines[il].k = "bracket") =>
          (pc' = "read" /\ sec_flag' = "None" /\ qc' = qc)
     /\ (NonKeywordLine /\ "sec_flag" \in loc.defd /\ sec_flag = "None") =>
          /\ pc' = "read" /\ sec_flag' = "None"
          /\ qc'.geo_info = qc.geo_info
          /\ qc'.ao_spec = qc.ao_spec
          /\ qc'.mo_spec = qc.mo_spec]_vars

\* a file whose [MO] section is followed by an unread header, an 'index
\* value' row and an 'Occup=' row was read to its end: the orbital has the
\* coefficient and the occupation of its own rows
C26_Witness ==
  /\ parser = "molden" /\ pc = "filter" /\ sec_flag = "None"
  /\ \E i \in 1..(Len(flines) - 2) :
       /\ flines[i].k = "bracket" /\ flines[i + 1].k = "mocoef" /\ flines[i + 2].k = "moinfo"
  /\ Len(qc.mo_spec) = 1
  /\ qc.mo_spec[1].coeffs = <<1>> /\ qc.mo_spec[1].occ_num = 2 * OccUnit

(***************************************************************************)
(* check_sel on its own                                                    *)
(***************************************************************************)
MaxCount == 6                \* largest census count handed to check_sel

\* a call check_sel(count, i) with interactive = False
InitCheckSel ==
  /\ parser = "check_sel"
  /\ pc = "call"
  /\ err = "none"
  /\ all_mo = FALSE
  /\ il = 0
  /\ flines = <<>>
  /\ sec_flag = "None"
  /\ basis_count = 0
  /\ qc = QCinfo
  /\ lim = <<>>
  /\ \E count \in 0..MaxCount, i \in (-MaxCount - 2)..(MaxCount + 2) :
       loc = [count |-> count, i |-> i, result |-> i]

\* the call returns an index or raises
CheckSelCall ==
  /\ parser = "check_sel" /\ pc = "call"
  /\ LET r == check_sel(loc.count, loc.i)
     IN IF r.err # "none" THEN Fail(r.err)
        ELSE /\ pc' = "done"
             /\ loc' = [loc EXCEPT !.result = r.i]
             /\ UNCHANGED <<parser, err, all_mo, il, flines, sec_flag, basis_count, qc, lim>>

SpecCheckSel == InitCheckSel /\ [][CheckSelCall]_vars

CheckSelEnded == parser = "check_sel" /\ pc \in {"done", "failed"}
OutOfRange == "IOError: Please give an integer from 0 to count-1!"

\* C27 as stated: for a count n >= 1, check_sel returns i for 0 <= i < n,
\* n + i for -n <= i < 0, and fails for every other i, also for n = 1
C27_RangeCheckedAlways ==
  (CheckSelEnded /\ loc.count >= 1) =>
    LET n == loc.count
        i == loc.i
    IN IF 0 <= i /\ i < n THEN pc = "done" /\ loc.result = i
       ELSE IF -n <= i /\ i < 0 THEN pc = "done" /\ loc.result = n + i
       ELSE pc = "failed"

\* C27 as the code has it: for a count n >= 2, check_sel returns i for
\* 0 <= i < n, n + i for -n <= i < 0, and fails with the IOError of the
\* prompt for every other i; for n = 1 it returns 0 whatever i is
C27_RangeCheckedFromTwo ==
  (CheckSelEnded /\ loc.count >= 1) =>
    LET n == loc.count
        i == loc.i
    IN IF n = 1 THEN pc = "done" /\ loc.result = 0
       ELSE IF 0 <= i /\ i < n THEN pc = "done" /\ loc.result = i
       ELSE IF -n <= i /\ i < 0 THEN pc = "done" /\ loc.result = n + i
       ELSE pc = "failed" /\ err = OutOfRange

\* check_sel(1, 2) has returned 0
C27_Witness ==
  /\ parser = "check_sel" /\ pc = "done"
  /\ loc.count = 1 /\ loc.i = 2 /\ loc.result = 0

(***************************************************************************)
(* Claims about the occupations of read_gaussian_fchk                      *)
(***************************************************************************)
\* the numbers of the 'Number of alpha electrons' and 'Number of beta
\* electrons' lines of the file, and its 'Orbital Energies' lines
FileElectrons(fl, k) == (CHOOSE j \in 1..Len(fl) : fl[j].k = k)
EnergyRecords(fl) == {j \in 1..Len(fl) : fl[j].k = "eorb"}

\* C29: when the file is read, the occupation numbers of the orbitals the
\* 'Orbital Energies' records allocated sum to the number of alpha electrons
\* plus the number of beta electrons, with one orbital set and with an Alpha
\* and a Beta set, for equal and for different electron counts; the file
\* names both counts before its records, alpha >= beta >= 1, and each record
\* holds at least as many orbitals as the larger count
C29_OccupationsSumToElectrons ==
  (/\ parser = "fchk" /\ pc = "filter"
   /\ \E j \in 1..Len(flines) : flines[j].k = "nalpha"
   /\ \E j \in 1..Len(flines) : flines[j].k = "nbeta"
   /\ EnergyRecords(flines) # {}
   /\ flines[FileElectrons(flines, "nalpha")].v[1] >= flines[FileElectrons(flines, "nbeta")].v[1]
   /\ flines[FileElectrons(flines, "nbeta")].v[1] >= 1
   /\ \A j \in EnergyRecords(flines) :
        /\ FileElectrons(flines, "nalpha") < j /\ FileElectrons(flines, "nbeta") < j
        /\ flines[j].v[1] >= flines[FileElectrons(flines, "nalpha")].v[1]
        /\ flines[j].v[1] >= flines[FileElectrons(flines, "nbeta")].v[1]) =>
    SumSeq([i \in 1..Len(qc.mo_spec) |-> qc.mo_spec[i].occ_num])
      = (flines[FileElectrons(flines, "nalpha")].v[1]
         + flines[FileElectrons(flines, "nbeta")].v[1]) * OccUnit
====
